---- MODULE Spec2Model ----
(***************************************************************************)
(* A model of the ComfyUI_HDNodes plugin nodes: the switch/selector nodes  *)
(* (cycling_switch.py) and the media nodes that download, concatenate and  *)
(* mux (stitch_videos_node.py, combine_video_audio_node.py,                *)
(* download_video_node.py, fal_audio_generation_node.py,                   *)
(* seedance_image_to_video_node.py).                                       *)
(*                                                                         *)
(* Python values are encoded as follows.  An optional value is a sequence  *)
(* of length at most one: None is <<>> and a value v is <<v>>.  A string   *)
(* on which the code does prefix tests or strip() is a sequence of tokens  *)
(* (" " is whitespace, "http://" and "https://" are the URL schemes).      *)
(***************************************************************************)
EXTENDS Integers, Sequences, FiniteSets, TLC

VARIABLES
    counter,    \* self.counter of the CyclingSwitch and CyclingSwitchAny instances
    swInputs,   \* what the graph delivers on input1..input10 of the switch nodes
    swNode,     \* the switch node invoked since the graph was last edited ("" if none)
    swBefore,   \* self.counter when that invocation started
    swRet,      \* the sole element of the tuple that invocation returned
    sels,       \* the values returned by the current run of invocations of one
                \* node with unchanged arguments
    runStart    \* self.counter when that run started

switchVars == <<counter, swNode, swInputs, swBefore, swRet, sels, runStart>>

VARIABLES
    pc,           \* the position of the running media-node invocation ("idle" if none)
    node,         \* the entry function that was invoked
    params,       \* its arguments
    now,          \* the wall clock, in ticks
    dirs,         \* the scratch directories that exist
    made,         \* the scratch directories and temporary files created so far
    files,        \* the file system: path |-> content
    video_paths,  \* stitch_videos: the collected references; generate_audio: the audio URL
    local_paths,  \* stitch_videos: the local files the references resolved to
    temp_dir,     \* the scratch directory (or temporary file) of the invocation
    concat_lines, \* stitch_videos: the lines written to concat_list.txt
    output,       \* the output file name and path the invocation chose
    calls,        \* the remote requests and external-process calls made so far
    result,       \* what the invocation returned (None while it runs or if it raised)
    environ,      \* os.environ: variable |-> value (None if unset)
    reply         \* the result of the generation job or of the Ollama request
                  \* (None if there is none)

mediaVars == <<pc, node, params, now, dirs, made, files, video_paths, local_paths,
               temp_dir, concat_lines, output, calls, result, environ, reply>>

VARIABLES
    cmdNode,      \* the function that built the last audio-mux command ("" if none)
    cmdArgs,      \* the arguments it was given
    cmd           \* the argument vector it built

cmdVars == <<cmdNode, cmdArgs, cmd>>

VARIABLES
    eiNode,       \* the node whose _create_error_image runs ("" if none)
    eiPc,         \* "idle", "wrap", "draw" or "done"
    eiMessage,    \* error_message: the lengths of its words
    eiWords,      \* the words still to be wrapped
    eiCurrent,    \* current_line: the lengths of its words
    eiLines,      \* lines: the lengths of the words of each
    eiDrawn       \* the number of lines draw.text has drawn

eiVars == <<eiNode, eiPc, eiMessage, eiWords, eiCurrent, eiLines, eiDrawn>>

VARIABLES
    genArgs,      \* what FluxKontextProManual.generate was given (<<>> if nothing)
    arguments     \* the arguments it prepared for the API call

reqVars == <<genArgs, arguments>>

VARIABLES
    hcClass,      \* the node class the host called last ("" if none)
    hcKwargs,     \* the names of the keyword arguments of that call
    hcBound       \* whether Python could bind them to the entry function

hostVars == <<hcClass, hcKwargs, hcBound>>

auxVars == <<cmdVars, eiVars, reqVars, hostVars>>

vars == <<switchVars, mediaVars, auxVars>>

(***************************************************************************)
(* Bounds of the model.                                                    *)
(***************************************************************************)
\* Counted invocations of the two cycling instances together while all four switch
\* nodes run.
MaxCounter == 3
\* Counted invocations of the cycling instance when it runs alone.
MaxCycleCounter == 12
\* Length of a recorded run of invocations with unchanged arguments.
MaxRun == 11

(***************************************************************************)
(* cycling_switch.py                                                       *)
(***************************************************************************)
NumSlots == 10

Slots == 1..NumSlots

None == <<>>

Some(v) == <<v>>

CyclingNodes == {"CyclingSwitch", "CyclingSwitchAny"}

RandomNodes == {"RandomSwitch", "RandomSwitchAny"}

StringNodes == {"CyclingSwitch", "RandomSwitch"}

SwitchNodes == CyclingNodes \cup RandomNodes

\* The value the host delivers on each slot when that slot is connected.  The
\* first one is the empty string: connected, but falsy in Python.
WireValue == <<"", "in2", "in3", "in4", "in5", "in6", "in7", "in8", "in9", "in10">>

IsNotNone(inp) == inp # None

IsTruthy(inp) == inp # None /\ inp # Some("")

\* Mutant: "if inp:" in place of "if inp is not None:".
CollectTruthy(args) ==
    LET kept == SelectSeq(args, IsTruthy)
    IN  [k \in 1..Len(kept) |-> kept[k][1]]

\* for inp in [input1, ..., input10]: if inp is not None: inputs.append(inp)
Collect(args) ==
    LET kept == SelectSeq(args, IsNotNone)
    IN  [k \in 1..Len(kept) |-> kept[k][1]]

\* Mutant: every class returns (None,) when nothing is connected.
EmptyReturnNone(n) == None

\* return ("",) for the STRING nodes, return (None,) for the any-typed ones
EmptyReturn(n) == IF n \in StringNodes THEN Some("") ELSE None

\* Mutant: the counter is incremented before the selection.
CycleIndexAfterIncrement(c, len) == ((c + 1) % len) + 1

\* inputs[self.counter % len(inputs)], as a position of a 1-based sequence
CycleIndex(c, len) == (c % len) + 1

\* Mutant: the counter advances by two.
IncrementTwice(c) == c + 2

\* self.counter += 1
Increment(c) == c + 1

\* Mutant: the first connected input is always chosen.
ChoiceFirstOnly(len) == {1}

\* secrets.choice(inputs): any position of the list
ChoiceIndexes(len) == 1..len

\* switch(self, input1=None, ..., input10=None) of the four classes
Switch(n, args) ==
    LET inputs == Collect(args) IN
    /\ swNode' = n
    /\ swInputs' = args
    /\ swBefore' = IF n \in CyclingNodes THEN counter[n] ELSE 0
    /\ IF inputs = <<>>
       THEN /\ swRet' = EmptyReturn(n)
            /\ UNCHANGED counter
       ELSE IF n \in CyclingNodes
       THEN /\ swRet' = Some(inputs[CycleIndex(counter[n], Len(inputs))])
            /\ counter' = [counter EXCEPT ![n] = Increment(@)]
       ELSE /\ \E k \in ChoiceIndexes(Len(inputs)) : swRet' = Some(inputs[k])
            /\ UNCHANGED counter

\* __init__: self.counter = 0; nothing has been invoked
SwitchInit ==
    /\ counter = [n \in CyclingNodes |-> 0]
    /\ swNode = ""
    /\ swInputs = [i \in Slots |-> None]
    /\ swBefore = 0
    /\ swRet = None
    /\ sels = <<>>
    /\ runStart = 0

\* The user edits the graph between two runs: one optional input of the switch
\* nodes is connected (it then delivers its value) or disconnected (None).  Any
\* argument list is reached by such edits.  The record of the last invocation is
\* dropped; the instances keep their counters.
Rewire ==
    \E i \in Slots :
        /\ swInputs' = [swInputs EXCEPT ![i] = IF @ = None THEN Some(WireValue[i]) ELSE None]
        /\ swNode' = ""
        /\ swBefore' = 0
        /\ swRet' = None
        /\ sels' = <<>>
        /\ runStart' = 0
        /\ UNCHANGED <<counter, mediaVars, auxVars>>

\* The host runs any of the four switch nodes on the current connections.
SwitchStep ==
    \E n \in SwitchNodes :
        /\ n \in CyclingNodes =>
               counter["CyclingSwitch"] + counter["CyclingSwitchAny"] < MaxCounter
        /\ Switch(n, swInputs)
        /\ UNCHANGED <<sels, runStart, mediaVars, auxVars>>

\* The host runs one CyclingSwitch instance again and again; sels records the run
\* of invocations since the connections last changed.
CycleStep ==
    /\ counter["CyclingSwitch"] < MaxCycleCounter
    /\ Len(sels) < MaxRun
    /\ Switch("CyclingSwitch", swInputs)
    /\ sels' = Append(sels, swRet')
    /\ runStart' = IF sels = <<>> THEN counter["CyclingSwitch"] ELSE runStart
    /\ UNCHANGED <<mediaVars, auxVars>>

\* Two selector instances in one graph: only the first MaxWired inputs are ever
\* connected, and the second instance is invoked at most MaxOther times.
MaxWired == 3

MaxOther == 2

\* As Rewire, for one of the first MaxWired inputs.
RewireFirst ==
    \E i \in 1..MaxWired :
        /\ swInputs' = [swInputs EXCEPT ![i] = IF @ = None THEN Some(WireValue[i]) ELSE None]
        /\ swNode' = ""
        /\ swBefore' = 0
        /\ swRet' = None
        /\ sels' = <<>>
        /\ runStart' = 0
        /\ UNCHANGED <<counter, mediaVars, auxVars>>

\* The host runs the CyclingSwitchAny instance between two invocations of the
\* CyclingSwitch instance.
OtherStep ==
    /\ counter["CyclingSwitchAny"] < MaxOther
    /\ Switch("CyclingSwitchAny", swInputs)
    /\ UNCHANGED <<sels, runStart, mediaVars, auxVars>>

(***************************************************************************)
(* Strings, paths, the clock, the file system and external processes       *)
(***************************************************************************)
\* Ticks of the wall clock per second: the resolution of the %f field.
TicksPerSecond == 2
\* The last tick of the modelled time span.
MaxClock == 2
\* stitch_videos is given at most MaxRefs non-blank video references.
MaxRefs == 2

RECURSIVE LStrip(_)
LStrip(s) == IF s # <<>> /\ Head(s) = " " THEN LStrip(Tail(s)) ELSE s

RECURSIVE RStrip(_)
RStrip(s) == IF s # <<>> /\ s[Len(s)] = " " THEN RStrip(SubSeq(s, 1, Len(s) - 1)) ELSE s

\* str.strip()
Strip(s) == RStrip(LStrip(s))

\* "x and x.strip()"
NonBlank(s) == s # <<>> /\ Strip(s) # <<>>

\* x.startswith(('http://', 'https://'))
IsUrl(s) == s # <<>> /\ Head(s) \in {"http://", "https://"}

\* os.path.join(directory, name)
Join(dir, name) ==
    IF name # <<>> /\ Head(name) = "/" THEN name ELSE dir \o <<"/">> \o name

\* strftime("%Y%m%d_%H%M%S"): the clock truncated to the second
StampSeconds(t) == <<ToString(t \div TicksPerSecond)>>

\* strftime('%Y%m%d_%H%M%S_%f'): the second and the ticks within it
StampMicros(t) == <<ToString(t \div TicksPerSecond), "_", ToString(t % TicksPerSecond)>>

\* While a blocking call runs the wall clock advances, possibly by less than its
\* resolution.
ElapseChoices(t) == {u \in {t, t + 1} : u <= MaxClock}

\* os.path.exists(path)
Exists(fs, p) == p \in DOMAIN fs

WriteFile(fs, p, c) == [q \in DOMAIN fs \cup {p} |-> IF q = p THEN c ELSE fs[q]]

IsUnder(p, d) == Len(p) > Len(d) /\ SubSeq(p, 1, Len(d)) = d /\ p[Len(d) + 1] = "/"

\* shutil.rmtree(d), os.unlink(d): the file system without d and what is under it
RemoveTrees(fs, ds) ==
    [q \in {x \in DOMAIN fs : \A d \in ds : x # d /\ ~IsUnder(x, d)} |-> fs[q]]

\* folder_paths.get_output_directory()
OutputDir == <<"/output">>

\* The content of a file that was not written to its end.
Partial == <<"partial">>

Bytes(p) == <<"bytes of">> \o p

\* What the server sends for a URL.
Body(url) == <<"body of">> \o url

UrlA == <<"http://", "host/a.mp4">>

UrlB == <<"https://", "host/b.mp4">>

\* An existing local video whose name holds a single quote.
LocalA == <<"/in/a", "'", "s.mp4">>

PaddedLocalA == <<" ">> \o LocalA \o <<" ">>

MissingVideo == <<"/in/missing.mp4">>

AudioFile == <<"/in/music.mp3">>

MissingAudio == <<"/in/missing.mp3">>

BlankChoices == {<<>>, <<" ">>}

VideoChoices == {UrlA, UrlB, LocalA, PaddedLocalA, MissingVideo}

AudioChoices == BlankChoices \cup {AudioFile, MissingAudio}

PrefixChoices == {<<"video">>}

\* The prefixes given to download_video and combine_video_audio: the default,
\* one with a parent-directory step and an absolute one.
AnyPrefixChoices ==
    PrefixChoices \cup {<<"..", "/", "clip">>, <<"/", "tmp", "/", "clip">>}

\* The files that exist before the invocation.
\* Videos given to preview_video: outside the output directory, directly in it,
\* in a subfolder of it, in a directory whose name begins like it, and missing.
PvOutside == <<"/in", "/", "clip.mp4">>

PvInOutput == <<"/output", "/", "shown.mp4">>

PvInSubfolder == <<"/output", "/", "sub", "/", "clip.mp4">>

PvSibling == <<"/output", "_old", "/", "clip.mp4">>

PvMissing == <<"/in", "/", "gone.mp4">>

PreviewFiles == {PvOutside, PvInOutput, PvInSubfolder, PvSibling}

\* A video an earlier stitch_videos with the prefix "clip" wrote at second 0.
EarlierPrefix == <<"clip">>

EarlierOutput == OutputDir \o <<"/">> \o EarlierPrefix \o <<"_">> \o StampSeconds(0) \o <<".mp4">>

InitFiles == [p \in {LocalA, AudioFile, EarlierOutput} \cup PreviewFiles |-> Bytes(p)]

NumVideoSlots == 5

\* The argument lists of stitch_videos.
StitchArgs ==
    {a \in [video : [1..NumVideoSlots -> BlankChoices \cup VideoChoices],
            filename_prefix : PrefixChoices,
            audio_path : AudioChoices] :
        Cardinality({i \in 1..NumVideoSlots : a.video[i] \notin BlankChoices}) <= MaxRefs}
    \cup {[video |-> [i \in 1..NumVideoSlots |-> IF i <= Len(v) THEN v[i] ELSE <<>>],
            filename_prefix |-> EarlierPrefix,
            audio_path |-> <<>>] : v \in {<<EarlierOutput, LocalA>>, <<LocalA>>}}

\* requests.get(..., timeout=300)
RequestTimeout == 300

\* subprocess.run(cmd, timeout=600) of the concatenation
ConcatTimeout == 600

\* subprocess.run(cmd, timeout=300) of add_audio_to_video
MuxTimeout == 300

\* The seconds an external process may take.
ElapsedChoices == {MuxTimeout, MuxTimeout + 1, ConcatTimeout, ConcatTimeout + 1}

DownloadOutcomes == {"ok", "http_error", "stream_error"}

\* Mutant: the return code is not looked at.
ProcessOutcomeNoReturnCode(elapsed, timeout, exit) ==
    IF elapsed > timeout THEN "timeout" ELSE "ok"

\* subprocess.run raises TimeoutExpired past the timeout; otherwise the code raises
\* when result.returncode != 0
ProcessOutcome(elapsed, timeout, exit) ==
    IF elapsed > timeout THEN "timeout"
    ELSE IF exit # 0 THEN "nonzero"
    ELSE "ok"

\* ffmpeg exits with a non-zero status when an input file cannot be opened.
ExitChoices(inputsOk) == IF inputsOk THEN {0, 1} ELSE {1}

Call(op, ref, target, timeout, elapsed, exit, http) ==
    [op |-> op, ref |-> ref, target |-> target, timeout |-> timeout,
     elapsed |-> elapsed, exit |-> exit, http |-> http]

\* requests.get, raise_for_status and the loop that writes the chunks
AfterDownload(fs, path, url, outcome) ==
    IF outcome = "ok" THEN WriteFile(fs, path, Body(url))
    ELSE IF outcome = "stream_error" THEN WriteFile(fs, path, Partial)
    ELSE fs

\* What a process reads from a path.
ContentOf(fs, p) == IF Exists(fs, p) THEN fs[p] ELSE <<>>

\* What an ffmpeg run leaves at its output path.
AfterProcess(fs, path, content, outcome, partial) ==
    IF outcome = "ok" THEN WriteFile(fs, path, content)
    ELSE IF partial THEN WriteFile(fs, path, Partial)
    ELSE fs

NoOutput == [filename |-> <<>>, path |-> <<>>]

\* f"{filename_prefix}_{timestamp}.mp4" joined to the output directory
OutputFor(prefix, t, ext) ==
    LET name == prefix \o <<"_">> \o StampSeconds(t) \o <<ext>>
    IN  [filename |-> name, path |-> Join(OutputDir, name)]

\* tempfile.mkdtemp(), tempfile.NamedTemporaryFile(): a name not used before
FreshTemp(used) == <<"/tmp/tmp", ToString(Cardinality(used) + 1)>>

(***************************************************************************)
(* stitch_videos_node.py                                                   *)
(***************************************************************************)
\* Mutant: the scratch directory is removed on the success path only.
FinallyOnSuccess(raising) == IF raising \/ temp_dir = <<>> THEN {} ELSE {temp_dir}

\* finally: shutil.rmtree(temp_dir), when a scratch directory was made
Finally(raising) == IF temp_dir = <<>> THEN {} ELSE {temp_dir}

\* The invocation ends: it returns res or raises.
Exit(kind, fs, res) ==
    LET gone == Finally(kind = "raised") IN
    /\ pc' = kind
    /\ dirs' = dirs \ gone
    /\ files' = RemoveTrees(fs, gone)
    /\ result' = res

\* The invocation goes on at position next, or ends by raising.
Continue(next, fs) ==
    IF next = "raised"
    THEN Exit("raised", fs, None)
    ELSE /\ pc' = next
         /\ files' = fs
         /\ UNCHANGED <<dirs, result>>

RECURSIVE StripAll(_)
StripAll(paths) ==
    IF paths = <<>> THEN <<>> ELSE <<Strip(Head(paths))>> \o StripAll(Tail(paths))

\* video_paths = [video_path_1] if video_path_1 and video_path_1.strip() else [];
\* then the other four, stripped, when they are not blank
CollectVideoPaths(video) ==
    (IF NonBlank(video[1]) THEN <<video[1]>> ELSE <<>>)
        \o StripAll(SelectSeq(Tail(video), NonBlank))

\* f"video_{datetime.now().strftime('%Y%m%d_%H%M%S_%f')}.mp4"
TempVideoName(t) == <<"video_">> \o StampMicros(t) \o <<".mp4">>

\* Mutant: a failed download is tried again.
RetryAfterDownload(outcome, okpc) == IF outcome = "ok" THEN okpc ELSE pc

\* response.raise_for_status() and the write loop raise; nothing catches them
AfterDownloadPc(outcome, okpc) == IF outcome = "ok" THEN okpc ELSE "raised"

\* download_video_if_url(video_path, temp_dir), then the caller goes on at okpc
DownloadVideoIfUrl(vp, ref, okpc) ==
    IF IsUrl(vp)
    THEN \E outcome \in DownloadOutcomes, t \in ElapseChoices(now) :
            LET tmp == Join(temp_dir, TempVideoName(t)) IN
            /\ now' = t
            /\ calls' = Append(calls, Call("download", ref, vp, RequestTimeout, 0, 0, outcome))
            /\ local_paths' = IF outcome = "ok" THEN Append(local_paths, tmp) ELSE local_paths
            /\ Continue(AfterDownloadPc(outcome, okpc), AfterDownload(files, tmp, vp, outcome))
    ELSE /\ UNCHANGED <<now, calls>>
         /\ IF Exists(files, vp)
            THEN /\ local_paths' = Append(local_paths, vp)
                 /\ Continue(okpc, files)
            ELSE /\ UNCHANGED local_paths
                 /\ Exit("raised", files, None)

\* Mutant: the pass-through always goes through ffmpeg.
PassThroughAlwaysMux(a) == "pt_mux"

\* copy_video_to_output: "if audio_path and audio_path.strip()"
PassThroughPc(a) == IF NonBlank(a.audio_path) THEN "pt_mux" ELSE "pt_copy"

\* Mutant: the concatenation always writes the final output path.
StitchOutputAlwaysFinal(a, out, dir) == out.path

\* stitch_output: a scratch file when audio is to be added, else the output path
StitchOutput(a, out, dir) ==
    IF NonBlank(a.audio_path) THEN Join(dir, <<"stitched_temp.mp4">>) ELSE out.path

\* The dict stitch_videos returns.
StitchResult(out) ==
    Some([path |-> out.path,
          ui |-> Some([filename |-> out.filename, subfolder |-> <<>>,
                       type |-> "output", format |-> "video/mp4"])])

\* stitch_videos up to the choice between pass-through and stitching, and
\* copy_video_to_output up to its first file operation
StitchInvoke ==
    /\ UNCHANGED <<switchVars, auxVars, environ, reply>>
    /\ pc = "idle"
    /\ \E a \in StitchArgs :
        LET vps == CollectVideoPaths(a.video)
            dir == FreshTemp(made)
        IN  /\ node' = "stitch_videos"
            /\ params' = a
            /\ video_paths' = vps
            /\ IF Len(vps) = 0
               THEN /\ Exit("raised", files, None)
                    /\ UNCHANGED <<made, temp_dir, output>>
               ELSE IF Len(vps) = 1
               THEN /\ output' = OutputFor(a.filename_prefix, now, ".mp4")
                    /\ IF IsUrl(vps[1])
                       THEN /\ temp_dir' = dir
                            /\ made' = made \cup {dir}
                            /\ dirs' = dirs \cup {dir}
                            /\ pc' = "pt_download"
                            /\ UNCHANGED <<files, result>>
                       ELSE /\ pc' = PassThroughPc(a)
                            /\ UNCHANGED <<made, temp_dir, dirs, files, result>>
               ELSE /\ temp_dir' = dir
                    /\ made' = made \cup {dir}
                    /\ dirs' = dirs \cup {dir}
                    /\ pc' = "resolve"
                    /\ UNCHANGED <<output, files, result>>
    /\ UNCHANGED <<now, local_paths, concat_lines, calls>>

\* copy_video_to_output: local_path = self.download_video_if_url(video_path, temp_dir)
PtDownload ==
    /\ UNCHANGED <<switchVars, auxVars, environ, reply>>
    /\ pc = "pt_download"
    /\ DownloadVideoIfUrl(video_paths[1], 1, PassThroughPc(params))
    /\ UNCHANGED <<node, params, made, video_paths, temp_dir, concat_lines, output>>

\* The video file copy_video_to_output copies or muxes.
PtSource == IF IsUrl(video_paths[1]) THEN local_paths[1] ELSE video_paths[1]

\* copy_video_to_output: shutil.copy2(local_path, output_path)
PtCopy ==
    /\ UNCHANGED <<switchVars, auxVars, environ, reply>>
    /\ pc = "pt_copy"
    /\ IF Exists(files, PtSource)
       THEN Exit("returned", WriteFile(files, output.path, files[PtSource]), StitchResult(output))
       ELSE Exit("raised", files, None)
    /\ UNCHANGED <<node, params, now, made, video_paths, local_paths, temp_dir,
                   concat_lines, output, calls>>

\* add_audio_to_video(video_path, audio_path, output_path, audio_volume); the
\* caller returns res when it succeeds
AddAudioToVideo(video, audio, out, res) ==
    \E elapsed \in ElapsedChoices,
       exit \in ExitChoices(Exists(files, video) /\ Exists(files, audio)),
       partial \in BOOLEAN :
        LET outcome == ProcessOutcome(elapsed, MuxTimeout, exit)
            content == <<"mux">> \o ContentOf(files, video) \o <<"with audio">>
                         \o ContentOf(files, audio)
            fs == AfterProcess(files, out, content, outcome, partial)
        IN  /\ calls' = Append(calls, Call("mux", 0, out, MuxTimeout, elapsed, exit, ""))
            /\ IF outcome = "ok"
               THEN Exit("returned", fs, res)
               ELSE Exit("raised", fs, None)

\* copy_video_to_output: self.add_audio_to_video(...)
PtMux ==
    /\ UNCHANGED <<switchVars, auxVars, environ, reply>>
    /\ pc = "pt_mux"
    /\ AddAudioToVideo(PtSource, params.audio_path, output.path, StitchResult(output))
    /\ UNCHANGED <<node, params, now, made, video_paths, local_paths, temp_dir,
                   concat_lines, output>>

\* stitch_videos: one round of "for i, video_path in enumerate(video_paths)"
Resolve ==
    /\ UNCHANGED <<switchVars, auxVars, environ, reply>>
    /\ pc = "resolve"
    /\ LET i == Len(local_paths) + 1 IN
       DownloadVideoIfUrl(video_paths[i], i,
                          IF i = Len(video_paths) THEN "prepare" ELSE "resolve")
    /\ UNCHANGED <<node, params, made, video_paths, temp_dir, concat_lines, output>>

RECURSIVE EscapeQuotes(_)
\* local_path.replace("'", "'\\''")
EscapeQuotes(p) ==
    IF p = <<>> THEN <<>>
    ELSE (IF Head(p) = "'" THEN <<"'", "\\", "'", "'">> ELSE <<Head(p)>>)
             \o EscapeQuotes(Tail(p))

\* f"file '{escaped_path}'\n"
ConcatLine(p) == <<"file ", "'">> \o EscapeQuotes(p) \o <<"'", "\n">>

\* stitch_videos: the output path is chosen and concat_list.txt is written
Prepare ==
    /\ UNCHANGED <<switchVars, auxVars, environ, reply>>
    /\ pc = "prepare"
    /\ output' = OutputFor(params.filename_prefix, now, ".mp4")
    /\ concat_lines' = [i \in 1..Len(local_paths) |-> ConcatLine(local_paths[i])]
    /\ files' = WriteFile(files, Join(temp_dir, <<"concat_list.txt">>), <<"concat list">>)
    /\ pc' = "concat"
    /\ UNCHANGED <<node, params, now, dirs, made, video_paths, local_paths, temp_dir,
                   calls, result>>

RECURSIVE Unquote(_, _)
\* How ffmpeg reads a quoted word: inside quotes everything is literal, outside
\* a backslash makes the next character literal.
Unquote(s, quoted) ==
    IF s = <<>> THEN <<>>
    ELSE IF Head(s) = "'" THEN Unquote(Tail(s), ~quoted)
    ELSE IF ~quoted /\ Head(s) = "\\" /\ Len(s) > 1
         THEN <<s[2]>> \o Unquote(Tail(Tail(s)), quoted)
    ELSE <<Head(s)>> \o Unquote(Tail(s), quoted)

\* The file a line of concat_list.txt names to the concat demuxer.
ConcatEntryPath(line) == Unquote(SubSeq(line, 2, Len(line) - 1), FALSE)

RECURSIVE Flatten(_)
Flatten(ss) == IF ss = <<>> THEN <<>> ELSE Head(ss) \o Flatten(Tail(ss))

\* stitch_videos: subprocess.run of "ffmpeg -f concat ... -c copy stitch_output"
Concat ==
    /\ UNCHANGED <<switchVars, auxVars, environ, reply>>
    /\ pc = "concat"
    /\ LET inputs == [i \in 1..Len(concat_lines) |-> ConcatEntryPath(concat_lines[i])]
           target == StitchOutput(params, output, temp_dir)
       IN  \E elapsed \in ElapsedChoices,
              exit \in ExitChoices(\A i \in 1..Len(inputs) : Exists(files, inputs[i])),
              partial \in BOOLEAN :
            LET outcome == ProcessOutcome(elapsed, ConcatTimeout, exit)
                content == <<"concat">>
                             \o Flatten([i \in 1..Len(inputs) |-> ContentOf(files, inputs[i])])
                fs == AfterProcess(files, target, content, outcome, partial)
            IN  /\ calls' = Append(calls, Call("concat", 0, target, ConcatTimeout,
                                               elapsed, exit, ""))
                /\ IF outcome # "ok"
                   THEN Exit("raised", fs, None)
                   ELSE IF NonBlank(params.audio_path)
                   THEN Continue("mux", fs)
                   ELSE Exit("returned", fs, StitchResult(output))
    /\ UNCHANGED <<node, params, now, made, video_paths, local_paths, temp_dir,
                   concat_lines, output>>

\* stitch_videos: self.add_audio_to_video(stitch_output, audio_path, output_path, ...)
Mux ==
    /\ UNCHANGED <<switchVars, auxVars, environ, reply>>
    /\ pc = "mux"
    /\ AddAudioToVideo(StitchOutput(params, output, temp_dir), params.audio_path,
                       output.path, StitchResult(output))
    /\ UNCHANGED <<node, params, now, made, video_paths, local_paths, temp_dir,
                   concat_lines, output>>

\* The environment variables the nodes write or read.
EnvNames == {"FAL_KEY", "OPENAI_API_KEY"}

\* No media node has been invoked; the input files exist.
MediaInit ==
    /\ pc = "idle"
    /\ node = ""
    /\ params = <<>>
    /\ now = 0
    /\ dirs = {}
    /\ made = {}
    /\ files = InitFiles
    /\ video_paths = <<>>
    /\ local_paths = <<>>
    /\ temp_dir = <<>>
    /\ concat_lines = <<>>
    /\ output = NoOutput
    /\ calls = <<>>
    /\ result = None
    /\ environ = [v \in EnvNames |-> None]
    /\ reply = None

(***************************************************************************)
(* combine_video_audio_node.py and download_video_node.py                  *)
(***************************************************************************)
\* The tuple a node without a ui entry returns.
Returns(value) == Some([path |-> value, ui |-> None])

\* subprocess.run(cmd, timeout=300) of combine_video_audio
CombineTimeout == 300

CombineArgs ==
    [video_url_or_path : {<<>>, UrlA, LocalA, MissingVideo},
     audio_path : {<<>>, AudioFile, MissingAudio},
     filename_prefix : AnyPrefixChoices]

\* combine_video_audio up to the download or, for a local video, up to ffmpeg
CombineInvoke ==
    /\ pc = "idle"
    /\ \E a \in CombineArgs :
        LET tmp == FreshTemp(made) \o <<".mp4">> IN
        /\ node' = "combine_video_audio"
        /\ params' = a
        /\ IF a.video_url_or_path = <<>>
              \/ a.audio_path = <<>> \/ ~Exists(files, a.audio_path)
           THEN /\ Exit("raised", files, None)
                /\ UNCHANGED <<made, temp_dir, output>>
           ELSE IF IsUrl(a.video_url_or_path)
           THEN /\ temp_dir' = tmp
                /\ made' = made \cup {tmp}
                /\ files' = WriteFile(files, tmp, <<>>)
                /\ pc' = "cb_download"
                /\ UNCHANGED <<dirs, output, result>>
           ELSE IF Exists(files, a.video_url_or_path)
           THEN /\ output' = OutputFor(a.filename_prefix, now, ".mp4")
                /\ pc' = "cb_run"
                /\ UNCHANGED <<made, temp_dir, dirs, files, result>>
           ELSE /\ Exit("raised", files, None)
                /\ UNCHANGED <<made, temp_dir, output>>
    /\ UNCHANGED <<now, video_paths, local_paths, concat_lines, calls,
                   switchVars, auxVars, environ, reply>>

\* combine_video_audio: self.download_video(video_url_or_path, video_path)
CbDownload ==
    /\ pc = "cb_download"
    /\ \E outcome \in DownloadOutcomes, t \in ElapseChoices(now) :
        /\ now' = t
        /\ calls' = Append(calls, Call("download", 1, params.video_url_or_path,
                                       RequestTimeout, 0, 0, outcome))
        /\ output' = IF outcome = "ok"
                     THEN OutputFor(params.filename_prefix, t, ".mp4") ELSE output
        /\ Continue(AfterDownloadPc(outcome, "cb_run"),
                    AfterDownload(files, temp_dir, params.video_url_or_path, outcome))
    /\ UNCHANGED <<node, params, made, video_paths, local_paths, temp_dir,
                   concat_lines, switchVars, auxVars, environ, reply>>

\* combine_video_audio: subprocess.run of the ffmpeg command and what follows
CbRun ==
    /\ pc = "cb_run"
    /\ LET video == IF temp_dir # <<>> THEN temp_dir ELSE params.video_url_or_path IN
       \E elapsed \in ElapsedChoices,
          exit \in ExitChoices(Exists(files, video) /\ Exists(files, params.audio_path)),
          partial \in BOOLEAN :
        LET outcome == ProcessOutcome(elapsed, CombineTimeout, exit)
            content == <<"mux">> \o ContentOf(files, video) \o <<"with audio">>
                         \o ContentOf(files, params.audio_path)
            fs == AfterProcess(files, output.path, content, outcome, partial)
        IN  /\ calls' = Append(calls, Call("combine", 0, output.path, CombineTimeout,
                                           elapsed, exit, ""))
            /\ IF outcome = "ok"
               THEN Exit("returned", fs, Returns(output.path))
               ELSE Exit("raised", fs, None)
    /\ UNCHANGED <<node, params, now, made, video_paths, local_paths, temp_dir,
                   concat_lines, output, switchVars, auxVars, environ, reply>>

JobId == <<"Job ID:", "42">>

DownloadArgs == [video_url : {<<>>, JobId, UrlA}, filename_prefix : AnyPrefixChoices]

\* download_video up to requests.get
DownloadInvoke ==
    /\ pc = "idle"
    /\ \E a \in DownloadArgs :
        /\ node' = "download_video"
        /\ params' = a
        /\ IF a.video_url = <<>> \/ Head(a.video_url) = "Job ID:"
           THEN /\ Exit("raised", files, None)
                /\ UNCHANGED output
           ELSE /\ output' = OutputFor(a.filename_prefix, now, ".mp4")
                /\ pc' = "dl_download"
                /\ UNCHANGED <<dirs, files, result>>
    /\ UNCHANGED <<now, made, video_paths, local_paths, temp_dir, concat_lines, calls,
                   switchVars, auxVars, environ, reply>>

\* download_video: the request, the write loop and the return
DlDownload ==
    /\ pc = "dl_download"
    /\ \E outcome \in DownloadOutcomes, t \in ElapseChoices(now) :
        LET fs == AfterDownload(files, output.path, params.video_url, outcome) IN
        /\ now' = t
        /\ calls' = Append(calls, Call("download", 1, params.video_url,
                                       RequestTimeout, 0, 0, outcome))
        /\ IF AfterDownloadPc(outcome, "returned") = "returned"
           THEN Exit("returned", fs, Returns(output.path))
           ELSE Continue(AfterDownloadPc(outcome, "returned"), fs)
    /\ UNCHANGED <<node, params, made, video_paths, local_paths, temp_dir,
                   concat_lines, output, switchVars, auxVars, environ, reply>>

(***************************************************************************)
(* fal_audio_generation_node.py and seedance_image_to_video_node.py        *)
(***************************************************************************)
FalArgs == [fal_api_key : {"", "key"}, prompt : {"", "a prompt"}]

\* What a result holds under a key: nothing, a dict with "url", a string, or
\* something else.
ValueKinds == {"absent", "dict_url", "str", "other"}

\* The results fal.subscribe can deliver.
SubscribeResults == [{"audio", "audio_file", "url", "video"} -> ValueKinds]

\* The URL a result holds under a key.
UrlUnder(key) ==
    IF key = "audio" THEN <<"https://", "fal/audio", ".wav">>
    ELSE IF key = "audio_file" THEN <<"https://", "fal/audio_file", ".flac">>
    ELSE IF key = "url" THEN <<"https://", "fal/url", ".ogg">>
    ELSE <<"https://", "fal/video", ".mp4">>

\* The entry under key: "dict and 'url' in it", "elif isinstance(..., str)"
UrlOfEntry(res, key) ==
    IF res[key] \in {"dict_url", "str"} THEN Some(UrlUnder(key)) ELSE None

\* generate_audio: the if/elif chain over "audio", "audio_file" and "url"
ExtractAudioUrl(res) ==
    IF res["audio"] # "absent" THEN UrlOfEntry(res, "audio")
    ELSE IF res["audio_file"] # "absent" THEN UrlOfEntry(res, "audio_file")
    ELSE IF res["url"] = "str" THEN Some(UrlUnder("url"))
    ELSE None

\* generate_audio: the extension from the end of the URL, mp3 by default
AudioExt(url) ==
    IF url[Len(url)] = ".wav" THEN ".wav"
    ELSE IF url[Len(url)] = ".flac" THEN ".flac"
    ELSE ".mp3"

\* generate_audio and generate_video up to their first remote call
FalInvoke ==
    /\ pc = "idle"
    /\ \E n \in {"generate_audio", "generate_video"}, a \in FalArgs,
          importable \in BOOLEAN, saved \in BOOLEAN :
        LET tmp == FreshTemp(made) \o <<".png">> IN
        /\ node' = n
        /\ params' = a
        /\ environ' = IF a.fal_api_key = "" \/ ~importable
                      THEN environ
                      ELSE [environ EXCEPT !["FAL_KEY"] = Some(a.fal_api_key)]
        /\ IF a.fal_api_key = "" \/ ~importable
           THEN /\ Exit("raised", files, None)
                /\ UNCHANGED <<made, temp_dir>>
           ELSE IF n = "generate_audio"
           THEN /\ pc' = "ga_subscribe"
                /\ UNCHANGED <<made, temp_dir, dirs, files, result>>
           ELSE /\ made' = made \cup {tmp}
                /\ IF saved
                   THEN /\ temp_dir' = tmp
                        /\ files' = WriteFile(files, tmp, <<"png">>)
                        /\ pc' = "gv_upload"
                        /\ UNCHANGED <<dirs, result>>
                   ELSE /\ files' = WriteFile(files, tmp, Partial)
                        /\ pc' = "raised"
                        /\ UNCHANGED <<temp_dir, dirs, result>>
    /\ UNCHANGED <<now, video_paths, local_paths, concat_lines, output, calls, switchVars, auxVars,
                   reply>>

\* generate_audio: fal.subscribe, the extraction of the URL and the file name
GaSubscribe ==
    /\ pc = "ga_subscribe"
    /\ \E ok \in BOOLEAN, res \in SubscribeResults, t \in ElapseChoices(now) :
        LET url == ExtractAudioUrl(res) IN
        /\ res["video"] = "absent"
        /\ reply' = IF ok THEN Some(res) ELSE None
        /\ now' = t
        /\ calls' = Append(calls, Call("subscribe", 0, <<"model">>, 0, 0, 0,
                                       IF ok THEN "ok" ELSE "api_error"))
        /\ IF ok /\ url # None
           THEN /\ video_paths' = <<url[1]>>
                /\ output' = OutputFor(<<"audio">>, t, AudioExt(url[1]))
                /\ Continue("ga_download", files)
           ELSE /\ Exit("raised", files, None)
                /\ UNCHANGED <<video_paths, output>>
    /\ UNCHANGED <<node, params, made, local_paths, temp_dir, concat_lines, switchVars, auxVars, environ>>

\* generate_audio: self.download_audio(audio_url, output_path) and the return
GaDownload ==
    /\ pc = "ga_download"
    /\ \E outcome \in DownloadOutcomes, t \in ElapseChoices(now) :
        LET fs == AfterDownload(files, output.path, video_paths[1], outcome) IN
        /\ now' = t
        /\ calls' = Append(calls, Call("download", 1, video_paths[1],
                                       RequestTimeout, 0, 0, outcome))
        /\ IF AfterDownloadPc(outcome, "returned") = "returned"
           THEN Exit("returned", fs, Returns(output.path))
           ELSE Continue(AfterDownloadPc(outcome, "returned"), fs)
    /\ UNCHANGED <<node, params, made, video_paths, local_paths, temp_dir,
                   concat_lines, output, switchVars, auxVars, environ, reply>>

\* generate_video: fal.upload_file(tmp_path)
GvUpload ==
    /\ pc = "gv_upload"
    /\ \E ok \in BOOLEAN, t \in ElapseChoices(now) :
        /\ now' = t
        /\ calls' = Append(calls, Call("upload", 0, temp_dir, 0, 0, 0,
                                       IF ok THEN "ok" ELSE "api_error"))
        /\ Continue(IF ok THEN "gv_subscribe" ELSE "raised", files)
    /\ UNCHANGED <<node, params, made, video_paths, local_paths, temp_dir,
                   concat_lines, output, switchVars, auxVars, environ, reply>>

\* generate_video: what is returned for a result
VideoValue(res) ==
    IF res["video"] = "absent" THEN <<"json.dumps(result)">>
    ELSE IF res["video"] \in {"dict_url", "str"} THEN UrlUnder("video")
    ELSE <<"str(video_data)">>

\* generate_video: fal.subscribe and the return
GvSubscribe ==
    /\ pc = "gv_subscribe"
    /\ \E ok \in BOOLEAN, res \in SubscribeResults, t \in ElapseChoices(now) :
        /\ \A k \in {"audio", "audio_file", "url"} : res[k] = "absent"
        /\ reply' = IF ok THEN Some(res) ELSE None
        /\ now' = t
        /\ calls' = Append(calls, Call("subscribe", 0, <<"model">>, 0, 0, 0,
                                       IF ok THEN "ok" ELSE "api_error"))
        /\ IF ok
           THEN Exit("returned", files, Returns(VideoValue(res)))
           ELSE Exit("raised", files, None)
    /\ UNCHANGED <<node, params, made, video_paths, local_paths, temp_dir,
                   concat_lines, output, switchVars, auxVars, environ>>

(***************************************************************************)
(* preview_video_node.py                                                   *)
(***************************************************************************)
PreviewArgs == [video_path : {<<>>, PvMissing} \cup PreviewFiles]

\* os.path.basename(p): what follows the last separator
RECURSIVE Basename(_)
Basename(path) ==
    IF path = <<>> \/ path[Len(path)] = "/" THEN <<>>
    ELSE Append(Basename(SubSeq(path, 1, Len(path) - 1)), path[Len(path)])

\* video_path.startswith(output_dir)
StartsWith(path, prefix) ==
    Len(path) >= Len(prefix) /\ SubSeq(path, 1, Len(prefix)) = prefix

\* "if not video_path.startswith(output_dir)" and "if video_path != dest_path"
PreviewCopies(path) ==
    ~StartsWith(path, OutputDir) /\ path # Join(OutputDir, Basename(path))

\* {"ui": {"videos": [{...}]}}
PreviewResult(filename) ==
    Some([path |-> None,
          ui |-> Some([filename |-> filename, subfolder |-> <<>>,
                       type |-> "output", format |-> "video/mp4"])])

\* preview_video
PreviewInvoke ==
    /\ pc = "idle"
    /\ \E a \in PreviewArgs, copied \in BOOLEAN :
        LET filename == Basename(a.video_path)
            dest_path == Join(OutputDir, filename)
        IN  /\ node' = "preview_video"
            /\ params' = a
            /\ IF a.video_path = <<>> \/ ~Exists(files, a.video_path)
               THEN Exit("raised", files, None)
               ELSE IF ~PreviewCopies(a.video_path)
               THEN Exit("returned", files, PreviewResult(filename))
               ELSE IF copied
               THEN Exit("returned", WriteFile(files, dest_path, files[a.video_path]),
                         PreviewResult(Basename(dest_path)))
               ELSE Exit("raised", WriteFile(files, dest_path, Partial), None)
    /\ UNCHANGED <<now, made, video_paths, local_paths, temp_dir, concat_lines, output,
                   calls, switchVars, auxVars, environ, reply>>

(***************************************************************************)
(* flux_kontext_pro_manual_node.py and flux_pro_ultra_manual_node.py       *)
(***************************************************************************)
FluxNodes == {"FluxKontextProManual", "FluxProUltraManual"}

FluxArgs == [api_key : {<<>>, <<" ">>, <<"key">>}, prompt : {<<>>, <<" ">>, <<"a prompt">>}]

\* RETURN_TYPES: ("IMAGE", "STRING") and ("IMAGE", "STRING", "INT")
ReturnTypes(n) ==
    IF n = "FluxKontextProManual" THEN <<"IMAGE", "STRING">> ELSE <<"IMAGE", "STRING", "INT">>

\* The error messages generate composes
ErrorTexts ==
    {"fal_client not installed", "API key is required", "Prompt is required",
     "No images returned from API", "Network error", "Error"}

FluxErrorWithoutSeed(n, msg) == Some(<<"error image", msg>>)

\* (self._create_error_image(error_msg), error_msg) and, for Ultra, a seed
FluxError(n, msg) ==
    Some(IF n = "FluxKontextProManual"
         THEN <<"error image", msg>>
         ELSE <<"error image", msg, "seed">>)

\* (output_tensor, info) and, for Ultra, result_seed
FluxSuccess(n) ==
    Some(IF n = "FluxKontextProManual"
         THEN <<"images", "info">>
         ELSE <<"images", "info", "seed">>)

\* What a result holds under "images": nothing, an empty list, entries without
\* "url", or one or two entries with "url".
ImagesKinds == {"absent", "empty", "no_url", "one_url", "two_urls"}

\* What a result holds under "image": nothing, a dict without "url", a dict with it.
ImageKinds == {"absent", "no_url", "url"}

ImageResults == [images : ImagesKinds, image : ImageKinds]

ImageUrl(k) == <<"https://", "fal/image", ToString(k)>>

\* generate: the if/elif that fills image_urls
ExtractImageUrls(res) ==
    IF res.images \in {"no_url", "one_url", "two_urls"}
    THEN (IF res.images = "one_url" THEN <<ImageUrl(1)>>
          ELSE IF res.images = "two_urls" THEN <<ImageUrl(1), ImageUrl(2)>>
          ELSE <<>>)
    ELSE IF res.image = "url" THEN <<ImageUrl(0)>>
    ELSE <<>>

\* generate up to the first step that can fail remotely
FluxInvoke ==
    /\ pc = "idle"
    /\ \E n \in FluxNodes, a \in FluxArgs, available \in BOOLEAN :
        /\ node' = n
        /\ params' = a
        /\ IF ~available
           THEN Exit("returned", files, FluxError(n, "fal_client not installed"))
           ELSE IF ~NonBlank(a.api_key)
           THEN Exit("returned", files, FluxError(n, "API key is required"))
           ELSE IF ~NonBlank(a.prompt)
           THEN Exit("returned", files, FluxError(n, "Prompt is required"))
           ELSE Continue(IF n = "FluxKontextProManual" THEN "fx_upload" ELSE "fx_submit", files)
    /\ UNCHANGED <<now, made, video_paths, local_paths, temp_dir, concat_lines, output,
                   calls, switchVars, auxVars, environ, reply>>

\* FluxKontextProManual._upload_image: the temporary file, the upload, the unlink
FxUpload ==
    /\ pc = "fx_upload"
    /\ \E saved \in BOOLEAN, ok \in BOOLEAN, t \in ElapseChoices(now) :
        LET tmp == FreshTemp(made) \o <<".png">> IN
        /\ made' = made \cup {tmp}
        /\ IF ~saved
           THEN /\ Exit("returned", WriteFile(files, tmp, Partial), FluxError(node, "Error"))
                /\ UNCHANGED <<now, calls>>
           ELSE /\ now' = t
                /\ calls' = Append(calls, Call("upload", 0, tmp, 0, 0, 0,
                                               IF ok THEN "ok" ELSE "api_error"))
                /\ IF ok
                   THEN Continue("fx_submit", files)
                   ELSE Exit("returned", files, FluxError(node, "Error"))
    /\ UNCHANGED <<node, params, video_paths, local_paths, temp_dir, concat_lines, output,
                   switchVars, auxVars, environ, reply>>

\* generate: client.submit, handler.get and the extraction of the image URLs
FxSubmit ==
    /\ pc = "fx_submit"
    /\ \E ok \in BOOLEAN, res \in ImageResults, t \in ElapseChoices(now) :
        LET urls == ExtractImageUrls(res) IN
        /\ reply' = IF ok THEN Some(res) ELSE None
        /\ now' = t
        /\ calls' = Append(calls, Call("subscribe", 0, <<"model">>, 0, 0, 0,
                                       IF ok THEN "ok" ELSE "api_error"))
        /\ IF ~ok
           THEN /\ Exit("returned", files, FluxError(node, "Error"))
                /\ UNCHANGED video_paths
           ELSE IF urls = <<>>
           THEN /\ Exit("returned", files, FluxError(node, "No images returned from API"))
                /\ UNCHANGED video_paths
           ELSE /\ video_paths' = urls
                /\ Continue("fx_download", files)
    /\ UNCHANGED <<node, params, made, local_paths, temp_dir, concat_lines, output,
                   switchVars, auxVars, environ>>

\* generate: one round of "for i, image_url in enumerate(image_urls)", and the
\* return after the last one
FxDownload ==
    /\ pc = "fx_download"
    /\ \E outcome \in {"ok", "http_error", "decode_error"}, t \in ElapseChoices(now) :
        LET i == Len(local_paths) + 1 IN
        /\ now' = t
        /\ calls' = Append(calls, Call("download", i, video_paths[i], 30, 0, 0,
                                       IF outcome = "http_error" THEN outcome ELSE "ok"))
        /\ IF outcome = "http_error"
           THEN /\ Exit("returned", files, FluxError(node, "Network error"))
                /\ UNCHANGED local_paths
           ELSE IF outcome = "decode_error"
           THEN /\ Exit("returned", files, FluxError(node, "Error"))
                /\ UNCHANGED local_paths
           ELSE /\ local_paths' = Append(local_paths, <<"tensor", ToString(i)>>)
                /\ IF i = Len(video_paths)
                   THEN Exit("returned", files, FluxSuccess(node))
                   ELSE Continue("fx_download", files)
    /\ UNCHANGED <<node, params, made, video_paths, temp_dir, concat_lines, output,
                   switchVars, auxVars, environ, reply>>

(***************************************************************************)
(* openai_vision_qc_node.py and ollama_image_to_music_prompt_node.py       *)
(***************************************************************************)
OpenAIArgs == [api_key : {"", "key"}, prompt : {"", "a prompt"}]

\* analyze_image_qc up to the request
OpenAIInvoke ==
    /\ pc = "idle"
    /\ \E a \in OpenAIArgs :
        /\ node' = "analyze_image_qc"
        /\ params' = a
        /\ IF a.api_key = "" /\ environ["OPENAI_API_KEY"] = None
           THEN Exit("returned", files, Some(<<"No OpenAI API key provided">>))
           ELSE Continue("oa_create", files)
    /\ UNCHANGED <<now, made, video_paths, local_paths, temp_dir, concat_lines, output,
                   calls, switchVars, auxVars, environ, reply>>

\* analyze_image_qc: client.responses.create and the return
OaCreate ==
    /\ pc = "oa_create"
    /\ \E ok \in BOOLEAN, t \in ElapseChoices(now) :
        /\ now' = t
        /\ calls' = Append(calls, Call("create", 0, <<"model">>, 0, 0, 0,
                                       IF ok THEN "ok" ELSE "api_error"))
        /\ Exit("returned", files,
                Some(IF ok THEN <<"analysis">> ELSE <<"Error processing image">>))
    /\ UNCHANGED <<node, params, made, video_paths, local_paths, temp_dir, concat_lines,
                   output, switchVars, auxVars, environ, reply>>

\* "Ambient atmospheric music with gentle melodies"
DefaultPrompt == <<"Ambient", " ", "atmospheric", " ", "music">>

\* "Ambient background music with soft instrumentation"
FallbackPrompt == <<"Ambient", " ", "background", " ", "music">>

\* What requests.post and response.json() can give: a transport error, a status
\* that is not 2xx, a body that is no JSON, JSON that is no object, or an object.
OllamaReplies == {"transport_error", "http_error", "not_json", "not_object", "object"}

\* What the object holds under "response": nothing, null, a number, or a string.
OllamaResponses ==
    {<<"missing">>, <<"null">>, <<"number">>}
        \cup {<<"str", text>> : text \in {<<>>, <<" ">>, <<" ", "calm", " ", "piano", " ">>}}

MusicPromptAsReceived(kind, response) ==
    IF kind # "object" THEN FallbackPrompt
    ELSE IF response[1] = "missing" THEN <<>>
    ELSE IF response[1] # "str" THEN FallbackPrompt
    ELSE Strip(response[2])

\* generate_music_prompt: what is returned for a reply
MusicPrompt(kind, response) ==
    IF kind # "object" THEN FallbackPrompt
    ELSE IF response[1] = "missing" THEN DefaultPrompt
    ELSE IF response[1] # "str" THEN FallbackPrompt
    ELSE IF Strip(response[2]) = <<>> THEN DefaultPrompt
    ELSE Strip(response[2])

\* generate_music_prompt up to the request
OllamaInvoke ==
    /\ pc = "idle"
    /\ \E style \in {"descriptive", "mood_based", "genre_specific", "cinematic"},
          custom \in {"", "slow"} :
        /\ node' = "generate_music_prompt"
        /\ params' = [prompt_style |-> style, custom_instruction |-> custom]
        /\ Continue("ol_post", files)
    /\ UNCHANGED <<now, made, video_paths, local_paths, temp_dir, concat_lines, output,
                   calls, switchVars, auxVars, environ, reply>>

\* generate_music_prompt: requests.post, response.json() and the return
OlPost ==
    /\ pc = "ol_post"
    /\ \E kind \in OllamaReplies, response \in OllamaResponses, t \in ElapseChoices(now) :
        /\ reply' = Some([kind |-> kind, response |-> response])
        /\ now' = t
        /\ calls' = Append(calls, Call("post", 0, <<"/api/generate">>, 120, 0, 0,
                                       IF kind \in {"transport_error", "http_error"}
                                       THEN kind ELSE "ok"))
        /\ Exit("returned", files, Some(<<MusicPrompt(kind, response)>>))
    /\ UNCHANGED <<node, params, made, video_paths, local_paths, temp_dir, concat_lines,
                   output, switchVars, auxVars, environ>>

(***************************************************************************)
(* The audio-mux commands                                                  *)
(***************************************************************************)
\* audio_volume in tenths: "min": 0.0, "max": 2.0, "step": 0.1
VolumeChoices == 0..20

\* The volume that leaves the audio as it is: 1.0
UnitVolume == 10

\* f"volume={audio_volume}"
FormatVolume(v) == <<"volume=", ToString(v \div 10), ".", ToString(v % 10)>>

\* add_audio_to_video: cmd
AddAudioCommand(video, audio, out, volume) ==
    << <<"ffmpeg">>, <<"-y">>, <<"-i">>, video, <<"-i">>, audio,
       <<"-c:v">>, <<"copy">>, <<"-c:a">>, <<"aac">>, <<"-b:a">>, <<"192k">>,
       <<"-filter:a">>, FormatVolume(volume), <<"-shortest">>, out >>

\* Mutant: -shortest whatever trim_audio_to_video says.
CombineCommandAlwaysShortest(video, audio, out, volume, trim) ==
    << <<"ffmpeg">>, <<"-i">>, video, <<"-i">>, audio,
       <<"-c:v">>, <<"copy">>, <<"-c:a">>, <<"aac">>, <<"-b:a">>, <<"192k">> >>
        \o (IF volume # UnitVolume THEN << <<"-filter:a">>, FormatVolume(volume) >> ELSE <<>>)
        \o << <<"-shortest">>, <<"-y">>, out >>

\* combine_video_audio: cmd, with its two extensions
CombineCommand(video, audio, out, volume, trim) ==
    << <<"ffmpeg">>, <<"-i">>, video, <<"-i">>, audio,
       <<"-c:v">>, <<"copy">>, <<"-c:a">>, <<"aac">>, <<"-b:a">>, <<"192k">> >>
        \o (IF volume # UnitVolume THEN << <<"-filter:a">>, FormatVolume(volume) >> ELSE <<>>)
        \o (IF trim THEN << <<"-shortest">> >> ELSE <<>>)
        \o << <<"-y">>, out >>

CommandInit ==
    /\ cmdNode = ""
    /\ cmdArgs = <<>>
    /\ cmd = <<>>

\* One of the two functions builds its command.
BuildCommand ==
    /\ \E video \in {LocalA, Join(FreshTemp({}), <<"stitched_temp.mp4">>)},
          audio \in {AudioFile, MissingAudio},
          volume \in VolumeChoices :
        LET out == OutputFor(<<"video">>, 0, ".mp4").path IN
        \/ /\ cmdNode' = "add_audio_to_video"
           /\ cmdArgs' = [video |-> video, audio |-> audio, out |-> out, volume |-> volume]
           /\ cmd' = AddAudioCommand(video, audio, out, volume)
        \/ \E trim \in BOOLEAN :
           /\ cmdNode' = "combine_video_audio"
           /\ cmdArgs' = [video |-> video, audio |-> audio, out |-> out, volume |-> volume,
                          trim |-> trim]
           /\ cmd' = CombineCommand(video, audio, out, volume, trim)
    /\ UNCHANGED <<switchVars, mediaVars, eiVars, reqVars, hostVars>>

(***************************************************************************)
(* _create_error_image of the two Flux nodes: truncation and word wrap     *)
(*                                                                         *)
(* A message is the sequence of the lengths of its words; the words are    *)
(* separated by single spaces.                                             *)
(***************************************************************************)
MaxWords == 14

\* The lengths a word of a message may have.
WordLengths == {1, 17, 27, 30, 41, 51}

\* max_chars, max_lines, the longest word kept whole, the longest line
MaxChars(n) == IF n = "FluxKontextProManual" THEN 400 ELSE 500
MaxLines(n) == IF n = "FluxKontextProManual" THEN 12 ELSE 15
MaxWordChars(n) == IF n = "FluxKontextProManual" THEN 40 ELSE 50
MaxLineChars(n) == IF n = "FluxKontextProManual" THEN 60 ELSE 80

\* len("...")
EllipsisLen == 3

RECURSIVE SumTo(_, _)
SumTo(ws, k) == IF k = 0 THEN 0 ELSE ws[k] + SumTo(ws, k - 1)

\* len(' '.join(ws))
JoinLen(ws) == IF ws = <<>> THEN 0 ELSE SumTo(ws, Len(ws)) + Len(ws) - 1

\* The index in the message of the first character of word i.
WordStart(ws, i) == SumTo(ws, i - 1) + i

\* (error_message[:max_chars] + "...").split(), for a message longer than
\* max_chars: the words that begin within the first max_chars characters, the
\* last of them cut there; the dots join it unless the cut falls on a space.
Cut(ws, max) ==
    LET kept == {i \in 1..Len(ws) : WordStart(ws, i) <= max}
        last == CHOOSE i \in kept : \A j \in kept : j <= i
        room == max - WordStart(ws, last) + 1
        head == [i \in 1..last |-> IF i < last THEN ws[i]
                                   ELSE IF ws[i] <= room THEN ws[i] ELSE room]
    IN  IF WordStart(ws, last) + ws[last] - 1 >= max
        THEN [head EXCEPT ![last] = @ + EllipsisLen]
        ELSE Append(head, EllipsisLen)

\* words = error_message.split(), after the truncation
Words(n, ws) == IF JoinLen(ws) > MaxChars(n) THEN Cut(ws, MaxChars(n)) ELSE ws

\* "if len(word) > 40: word = word[:40] + '...'"
Shorten(n, w) == IF w > MaxWordChars(n) THEN MaxWordChars(n) + EllipsisLen ELSE w

\* "if len(lines) >= max_lines: break"
LinesFull(n, lines) == Len(lines) >= MaxLines(n)

RoomForLastLineAlways(n, lines) == TRUE

\* Mutant: the word that did not fit is not taken to the next line.
StartLineEmpty(word) == <<>>

\* "current_line = [word]"
StartLine(word) == <<word>>

\* "... and len(lines) < max_lines"
RoomForLastLine(n, lines) == Len(lines) < MaxLines(n)

\* The messages: up to MaxWords words whose lengths alternate between two.
Messages ==
    {[i \in 1..k |-> IF i % 2 = 1 THEN a ELSE b] :
        k \in 0..MaxWords, a \in WordLengths, b \in WordLengths}

ErrorImageInit ==
    /\ eiNode = ""
    /\ eiPc = "idle"
    /\ eiMessage = <<>>
    /\ eiWords = <<>>
    /\ eiCurrent = <<>>
    /\ eiLines = <<>>
    /\ eiDrawn = 0

\* _create_error_image up to the word-wrap loop
EiInvoke ==
    /\ eiPc = "idle"
    /\ \E n \in FluxNodes, ws \in Messages :
        /\ eiNode' = n
        /\ eiMessage' = ws
        /\ eiWords' = Words(n, ws)
    /\ eiPc' = "wrap"
    /\ eiCurrent' = <<>>
    /\ eiLines' = <<>>
    /\ eiDrawn' = 0
    /\ UNCHANGED <<switchVars, mediaVars, cmdVars, reqVars, hostVars>>

\* One round of "for word in words"
EiWord ==
    /\ eiPc = "wrap"
    /\ eiWords # <<>>
    /\ IF LinesFull(eiNode, eiLines)
       THEN /\ eiWords' = <<>>
            /\ UNCHANGED <<eiCurrent, eiLines>>
       ELSE LET word == Shorten(eiNode, Head(eiWords)) IN
            /\ eiWords' = Tail(eiWords)
            /\ IF JoinLen(Append(eiCurrent, word)) > MaxLineChars(eiNode)
               THEN /\ eiLines' = IF eiCurrent # <<>>
                                  THEN Append(eiLines, eiCurrent) ELSE eiLines
                    /\ eiCurrent' = StartLine(word)
               ELSE /\ eiCurrent' = Append(eiCurrent, word)
                    /\ UNCHANGED eiLines
    /\ UNCHANGED <<eiNode, eiPc, eiMessage, eiDrawn>>
    /\ UNCHANGED <<switchVars, mediaVars, cmdVars, reqVars, hostVars>>

\* "if current_line and len(lines) < max_lines: lines.append(...)"
EiLastLine ==
    /\ eiPc = "wrap"
    /\ eiWords = <<>>
    /\ eiLines' = IF eiCurrent # <<>> /\ RoomForLastLine(eiNode, eiLines)
                  THEN Append(eiLines, eiCurrent) ELSE eiLines
    /\ eiPc' = "draw"
    /\ UNCHANGED <<eiNode, eiMessage, eiWords, eiCurrent, eiDrawn>>
    /\ UNCHANGED <<switchVars, mediaVars, cmdVars, reqVars, hostVars>>

\* "for line in lines": draw.text inside try, "except: continue"; then the
\* conversion to a tensor and the return
EiDraw ==
    /\ eiPc = "draw"
    /\ \E drawn \in 0..Len(eiLines) : eiDrawn' = drawn
    /\ eiPc' = "done"
    /\ UNCHANGED <<eiNode, eiMessage, eiWords, eiCurrent, eiLines>>
    /\ UNCHANGED <<switchVars, mediaVars, cmdVars, reqVars, hostVars>>

(***************************************************************************)
(* FluxKontextProManual.generate: the aspect ratio of the request          *)
(***************************************************************************)
\* The width and the height of the input image are at most MaxSide.
MaxSide == 4

\* INPUT_TYPES: the choices of aspect_ratio
AspectChoices ==
    {"preserve_input", "1:1", "16:9", "21:9", "3:2", "2:3", "4:3", "3:4", "9:16", "9:21"}

\* ratio_map in the order of its keys, the keys in hundredths
RatioKeys == <<100, 177, 233, 150, 67, 133, 75, 56, 43>>

RatioNames == <<"1:1", "16:9", "21:9", "3:2", "2:3", "4:3", "3:4", "9:16", "9:21">>

\* abs(x - width / height), scaled by 100 * height
Distance(i, width, height) ==
    LET d == RatioKeys[i] * height - 100 * width IN IF d < 0 THEN 0 - d ELSE d

\* min(ratio_map.keys(), key=...): the first key at the least distance
ClosestRatio(width, height) ==
    RatioNames[CHOOSE i \in 1..Len(RatioKeys) :
        \A j \in 1..Len(RatioKeys) :
            \/ Distance(i, width, height) < Distance(j, width, height)
            \/ Distance(i, width, height) = Distance(j, width, height) /\ i <= j]

\* "if aspect_ratio == 'LuxuryPresence_preserve_input': ..."
RequestAspectRatio(aspect_ratio, width, height) ==
    IF aspect_ratio = "LuxuryPresence_preserve_input"
    THEN ClosestRatio(width, height)
    ELSE aspect_ratio

ArgumentsInit ==
    /\ genArgs = <<>>
    /\ arguments = <<>>

\* generate from the aspect ratio to the arguments of the API call
PrepareArguments ==
    /\ genArgs = <<>>
    /\ \E aspect_ratio \in AspectChoices, width \in 1..MaxSide, height \in 1..MaxSide :
        /\ genArgs' = [aspect_ratio |-> aspect_ratio, width |-> width, height |-> height]
        /\ arguments' = [aspect_ratio |-> RequestAspectRatio(aspect_ratio, width, height)]
    /\ UNCHANGED <<switchVars, mediaVars, cmdVars, eiVars, hostVars>>

(***************************************************************************)
(* The input schema of each node class and its entry function              *)
(***************************************************************************)
NodeClasses ==
    {"CombineVideoAudio", "CyclingSwitch", "RandomSwitch",
            "CyclingSwitchAny", "RandomSwitchAny", "DownloadVideo",
            "FalAudioGeneration", "FluxKontextProManual",
            "FluxProUltraManual", "OllamaImageToMusicPrompt",
            "OpenAIVisionQC", "PreviewVideo", "SeedanceImageToVideo",
            "StitchVideos"}

\* INPUT_TYPES(): each group of the returned dict and the input names in it
InputTypes(n) ==
    CASE n = "CombineVideoAudio" ->
            ("required" :> {"video_url_or_path", "audio_path",
            "filename_prefix", "audio_volume"}) @@
            ("optional" :> {"trim_audio_to_video"})
      [] n = "CyclingSwitch" ->
            ("optional" :> {"input1", "input2", "input3", "input4", "input5",
            "input6", "input7", "input8", "input9", "input10"})
      [] n = "RandomSwitch" ->
            ("optional" :> {"input1", "input2", "input3", "input4", "input5",
            "input6", "input7", "input8", "input9", "input10"})
      [] n = "CyclingSwitchAny" ->
            ("optional" :> {"input1", "input2", "input3", "input4", "input5",
            "input6", "input7", "input8", "input9", "input10"})
      [] n = "RandomSwitchAny" ->
            ("optional" :> {"input1", "input2", "input3", "input4", "input5",
            "input6", "input7", "input8", "input9", "input10"})
      [] n = "DownloadVideo" ->
            ("required" :> {"video_url", "filename_prefix"})
      [] n = "FalAudioGeneration" ->
            ("required" :> {"prompt", "fal_api_key", "model", "duration",
            "seed"})
      [] n = "FluxKontextProManual" ->
            ("required" :> {"image", "prompt", "api_key", "aspect_ratio",
            "num_images", "seed"}) @@
            ("optional" :> {"guidance_scale", "output_format",
            "safety_tolerance"})
      [] n = "FluxProUltraManual" ->
            ("LuxuryPresence_required" :> {"LuxuryPresence_prompt",
            "LuxuryPresence_api_key", "LuxuryPresence_image_size",
            "LuxuryPresence_num_images", "LuxuryPresence_seed"}) @@
            ("LuxuryPresence_optional" :> {"LuxuryPresence_guidance_scale",
            "LuxuryPresence_output_format",
            "LuxuryPresence_safety_tolerance"})
      [] n = "OllamaImageToMusicPrompt" ->
            ("required" :> {"image", "prompt_style", "ollama_host", "model"}) @@
            ("optional" :> {"custom_instruction"})
      [] n = "OpenAIVisionQC" ->
            ("required" :> {"image", "postTitle", "postContent",
            "brandProfile", "prompt", "model", "api_key"})
      [] n = "PreviewVideo" ->
            ("required" :> {"video_path"})
      [] n = "SeedanceImageToVideo" ->
            ("required" :> {"image", "prompt", "fal_api_key",
            "model_version", "resolution", "aspect_ratio", "duration",
            "seed", "camera_fixed"})
      [] n = "StitchVideos" ->
            ("required" :> {"video_path_1", "filename_prefix"}) @@
            ("optional" :> {"video_path_2", "video_path_3", "video_path_4",
            "video_path_5", "audio_path", "audio_volume"})

\* The parameters of the entry function after self
Parameters(n) ==
    CASE n = "CombineVideoAudio" ->
            {"video_url_or_path", "audio_path", "filename_prefix",
            "audio_volume", "trim_audio_to_video"}
      [] n = "CyclingSwitch" ->
            {"input1", "input2", "input3", "input4", "input5", "input6",
            "input7", "input8", "input9", "input10"}
      [] n = "RandomSwitch" ->
            {"input1", "input2", "input3", "input4", "input5", "input6",
            "input7", "input8", "input9", "input10"}
      [] n = "CyclingSwitchAny" ->
            {"input1", "input2", "input3", "input4", "input5", "input6",
            "input7", "input8", "input9", "input10"}
      [] n = "RandomSwitchAny" ->
            {"input1", "input2", "input3", "input4", "input5", "input6",
            "input7", "input8", "input9", "input10"}
      [] n = "DownloadVideo" ->
            {"video_url", "filename_prefix"}
      [] n = "FalAudioGeneration" ->
            {"prompt", "fal_api_key", "model", "duration", "seed"}
      [] n = "FluxKontextProManual" ->
            {"image", "prompt", "api_key", "aspect_ratio", "num_images",
            "seed", "guidance_scale", "output_format", "safety_tolerance"}
      [] n = "FluxProUltraManual" ->
            {"prompt", "api_key", "image_size", "num_images", "seed",
            "guidance_scale", "output_format", "safety_tolerance"}
      [] n = "OllamaImageToMusicPrompt" ->
            {"image", "prompt_style", "ollama_host", "model",
            "custom_instruction"}
      [] n = "OpenAIVisionQC" ->
            {"image", "postTitle", "postContent", "brandProfile", "prompt",
            "model", "api_key"}
      [] n = "PreviewVideo" ->
            {"video_path"}
      [] n = "SeedanceImageToVideo" ->
            {"image", "prompt", "fal_api_key", "model_version", "resolution",
            "aspect_ratio", "duration", "seed", "camera_fixed"}
      [] n = "StitchVideos" ->
            {"video_path_1", "filename_prefix", "video_path_2",
            "video_path_3", "video_path_4", "video_path_5", "audio_path",
            "audio_volume"}

\* The parameters without a default
WithoutDefault(n) ==
    CASE n = "CombineVideoAudio" ->
            {"video_url_or_path", "audio_path", "filename_prefix",
            "audio_volume"}
      [] n = "CyclingSwitch" ->
            {}
      [] n = "RandomSwitch" ->
            {}
      [] n = "CyclingSwitchAny" ->
            {}
      [] n = "RandomSwitchAny" ->
            {}
      [] n = "DownloadVideo" ->
            {"video_url", "filename_prefix"}
      [] n = "FalAudioGeneration" ->
            {"prompt", "fal_api_key", "model", "duration", "seed"}
      [] n = "FluxKontextProManual" ->
            {"image", "prompt", "api_key"}
      [] n = "FluxProUltraManual" ->
            {"prompt", "api_key"}
      [] n = "OllamaImageToMusicPrompt" ->
            {"image", "prompt_style", "ollama_host", "model"}
      [] n = "OpenAIVisionQC" ->
            {"image", "postTitle", "postContent", "brandProfile", "prompt",
            "model"}
      [] n = "PreviewVideo" ->
            {"video_path"}
      [] n = "SeedanceImageToVideo" ->
            {"image", "prompt", "fal_api_key", "model_version", "resolution",
            "aspect_ratio", "duration", "seed", "camera_fixed"}
      [] n = "StitchVideos" ->
            {"video_path_1", "filename_prefix"}

\* The inputs a schema declares in a group; none when it has no such group.
Group(n, g) == IF g \in DOMAIN InputTypes(n) THEN InputTypes(n)[g] ELSE {}

\* Python binds keyword arguments to the entry function when each names a
\* parameter and every parameter without a default is given.
Binds(n, kwargs) == kwargs \subseteq Parameters(n) /\ WithoutDefault(n) \subseteq kwargs

HostInit ==
    /\ hcClass = ""
    /\ hcKwargs = {}
    /\ hcBound = FALSE

\* The host calls getattr(obj, FUNCTION)(**inputs) with the required inputs and
\* the connected optional ones of the schema.
HostCall ==
    /\ hcClass = ""
    /\ \E n \in NodeClasses : \E connected \in SUBSET Group(n, "optional") :
        LET kwargs == Group(n, "required") \cup connected IN
        /\ hcClass' = n
        /\ hcKwargs' = kwargs
        /\ hcBound' = Binds(n, kwargs)
    /\ UNCHANGED <<switchVars, mediaVars, cmdVars, eiVars, reqVars>>

Init ==
    SwitchInit /\ MediaInit /\ CommandInit /\ ErrorImageInit /\ ArgumentsInit /\ HostInit

\* One invocation of one of the media nodes.
SpecMedia ==
    Init /\ [][StitchInvoke \/ PtDownload \/ PtCopy \/ PtMux \/ Resolve \/ Prepare
                  \/ Concat \/ Mux \/ CombineInvoke \/ CbDownload \/ CbRun
                  \/ DownloadInvoke \/ DlDownload \/ FalInvoke \/ GaSubscribe
                  \/ GaDownload \/ GvUpload \/ GvSubscribe \/ FluxInvoke \/ FxUpload
                  \/ FxSubmit \/ FxDownload \/ OpenAIInvoke \/ OaCreate
                  \/ OllamaInvoke \/ OlPost \/ PreviewInvoke]_vars

\* The commands the two mux functions build.
SpecCommand == Init /\ [][BuildCommand]_vars

\* The host calls the entry functions by the schemas.
SpecSchema == Init /\ [][HostCall]_vars

\* The arguments FluxKontextProManual.generate prepares.
SpecArguments == Init /\ [][PrepareArguments]_vars

\* Each loop of _create_error_image runs on once entered.
SpecErrorImage ==
    /\ Init
    /\ [][EiInvoke \/ EiWord \/ EiLastLine \/ EiDraw]_vars
    /\ WF_vars(EiWord) /\ WF_vars(EiLastLine) /\ WF_vars(EiDraw)

SpecSwitch == Init /\ [][Rewire \/ SwitchStep]_vars

SpecCycle == Init /\ [][Rewire \/ CycleStep]_vars

\* Two cycling instances run interleaved.
SpecTwoSelectors == Init /\ [][RewireFirst \/ CycleStep \/ OtherStep]_vars

(***************************************************************************)
(* The claims about the switch nodes.  The connected inputs are described  *)
(* here by slot positions, independently of Collect.                       *)
(***************************************************************************)
ConnectedSlots(args) == {i \in Slots : args[i] # None}

NumConnected(args) == Cardinality(ConnectedSlots(args))

\* The k-th connected slot in the order input1..input10.
NthConnectedSlot(args, k) ==
    CHOOSE i \in ConnectedSlots(args) :
        Cardinality({j \in ConnectedSlots(args) : j <= i}) = k

\* The value of the k-th connected input (k counted from 0, as in Python).
ConnectedAt(args, k) == args[NthConnectedSlot(args, k + 1)][1]

\* C1: an invocation of a cycling switch with at least one connected input returns
\* connected[counter mod len(connected)], counter being the instance counter before
\* the call and connected the non-None inputs in slot order, and leaves the counter
\* increased by exactly one; the index is in range whatever the number of
\* connected inputs was before.
C1_CyclingSelectsCounterModLen ==
    (swNode \in CyclingNodes /\ NumConnected(swInputs) > 0) =>
        LET n == NumConnected(swInputs) IN
        /\ swBefore % n \in 0..(n - 1)
        /\ swRet = Some(ConnectedAt(swInputs, swBefore % n))
        /\ counter[swNode] = swBefore + 1

\* C1 witness: a cycling switch was invoked with two inputs connected, the first
\* one unconnected, and a counter that had reached the number of connected inputs:
\* the index wrapped around to the first connected input.
C1_Witness ==
    /\ swNode = "CyclingSwitchAny"
    /\ ConnectedSlots(swInputs) = {2, NumSlots}
    /\ swBefore = 2
    /\ swRet = swInputs[2]
    /\ counter[swNode] = 3

\* C2 as stated: with N connected inputs, the selections of N consecutive
\* invocations are the connection order, and the selections repeat with period N,
\* whatever the instance did before.
C2_RunEqualsConnectionOrder ==
    LET n == NumConnected(swInputs) IN
    (swNode = "CyclingSwitch" /\ n > 0) =>
        /\ Len(sels) >= n =>
               \A k \in 1..n : sels[k] = Some(ConnectedAt(swInputs, k - 1))
        /\ \A k \in 1..Len(sels) : k + n <= Len(sels) => sels[k + n] = sels[k]

\* C2 amended: with N connected inputs, the selections of consecutive invocations
\* are the connection order rotated to start at position (counter mod N), counter
\* being the instance counter when the run starts; they are the connection order
\* itself when N divides that counter (as on a fresh instance), every connected
\* input is selected within N consecutive invocations, and the selections repeat
\* with period N.
C2_RunIsRotatedConnectionOrder ==
    LET n == NumConnected(swInputs) IN
    (swNode = "CyclingSwitch" /\ n > 0) =>
        /\ \A k \in 1..Len(sels) :
               sels[k] = Some(ConnectedAt(swInputs, (runStart + k - 1) % n))
        /\ (runStart % n = 0 /\ Len(sels) >= n) =>
               \A k \in 1..n : sels[k] = Some(ConnectedAt(swInputs, k - 1))
        /\ Len(sels) >= n =>
               {sels[k][1] : k \in 1..n} = {swInputs[i][1] : i \in ConnectedSlots(swInputs)}
        /\ \A k \in 1..Len(sels) : k + n <= Len(sels) => sels[k + n] = sels[k]

\* C2 witness: all ten inputs connected, a run longer than one period that started
\* at a counter ten does not divide.
C2_Witness ==
    /\ swNode = "CyclingSwitch"
    /\ NumConnected(swInputs) = NumSlots
    /\ runStart % NumSlots # 0
    /\ Len(sels) > NumSlots
    /\ sels[NumSlots + 1] = sels[1]
    /\ sels[1] # Some(ConnectedAt(swInputs, 0))

\* C3: with none of the ten inputs connected, every switch returns its empty
\* value: the empty string for the STRING nodes, None for the any-typed nodes.
C3_NothingConnectedReturnsEmpty ==
    (swNode # "" /\ NumConnected(swInputs) = 0) =>
        /\ swNode \in {"CyclingSwitch", "RandomSwitch"} => swRet = Some("")
        /\ swNode \in {"CyclingSwitchAny", "RandomSwitchAny"} => swRet = None
        /\ swNode \in CyclingNodes => counter[swNode] = swBefore

\* C3 witness: an any-typed node has returned None with nothing connected, after
\* the cycling instance had run.
C3_Witness ==
    /\ swNode = "RandomSwitchAny"
    /\ NumConnected(swInputs) = 0
    /\ swRet = None
    /\ counter["CyclingSwitch"] > 0

NotSpace(t) == t # " "

\* A slot is blank when it holds nothing but white space.
IsBlankRef(r) == SelectSeq(r, NotSpace) = <<>>

\* The reference without its surrounding white space.
Trimmed(r) == SelectSeq(r, NotSpace)

IsRemoteRef(r) == Trimmed(r) # <<>> /\ Trimmed(r)[1] \in {"http://", "https://"}

NonBlankSlots == {i \in 1..NumVideoSlots : ~IsBlankRef(params.video[i])}

\* The k-th non-blank slot in the order video_path_1..video_path_5.
NthNonBlankSlot(k) ==
    CHOOSE i \in NonBlankSlots : Cardinality({j \in NonBlankSlots : j <= i}) = k

Stitching == node = "stitch_videos" /\ Cardinality(NonBlankSlots) > 1

CallIndexes(op) == {k \in 1..Len(calls) : calls[k].op = op}

\* HTTP success, or exit status zero within 600s (concatenation) or 300s (mux).
CallSucceeded(c) ==
    IF c.op = "concat" THEN c.exit = 0 /\ c.elapsed <= 600
    ELSE IF c.op \in {"mux", "combine"} THEN c.exit = 0 /\ c.elapsed <= 300
    ELSE c.http = "ok"

C6_SingleClipPassThrough ==
    (node = "stitch_videos" /\ Cardinality(NonBlankSlots) = 1) =>
        LET ref == Trimmed(params.video[NthNonBlankSlot(1)]) IN
        /\ CallIndexes("concat") = {}
        /\ concat_lines = <<>>
        /\ IsBlankRef(params.audio_path) =>
            /\ \A k \in 1..Len(calls) : calls[k].op = "download"
            /\ pc = "returned" =>
                /\ result = StitchResult(output)
                /\ Exists(files, output.path)
                /\ files[output.path] = IF IsRemoteRef(ref) THEN Body(ref) ELSE InitFiles[ref]

\* The only reference is a URL in the fourth slot, the audio path is white space:
\* the download was copied to the output.
C6_Witness ==
    /\ node = "stitch_videos"
    /\ pc = "returned"
    /\ NonBlankSlots = {4}
    /\ params.video[4] = UrlB
    /\ params.audio_path = <<" ">>
    /\ files[output.path] = Body(UrlB)

\* The file the k-th entry of the concatenation list names.
EntryFile(k) == ConcatEntryPath(concat_lines[k])

\* The concatenation list has one entry per non-blank reference, in slot order,
\* and each names the file the reference resolved to.
C7_OneEntryPerReference ==
    (Stitching /\ concat_lines # <<>>) =>
        /\ Len(concat_lines) = Cardinality(NonBlankSlots)
        /\ \A k \in 1..Len(concat_lines) :
            LET ref == Trimmed(params.video[NthNonBlankSlot(k)]) IN
            /\ EntryFile(k) = local_paths[k]
            /\ IF IsRemoteRef(ref)
               THEN IsUnder(EntryFile(k), temp_dir)
               ELSE EntryFile(k) = ref

\* Different URLs are never given the same scratch file.
C7_DistinctScratchFiles ==
    (Stitching /\ concat_lines # <<>>) =>
        \A j, k \in 1..Len(concat_lines) :
            LET rj == Trimmed(params.video[NthNonBlankSlot(j)])
                rk == Trimmed(params.video[NthNonBlankSlot(k)])
            IN  (IsRemoteRef(rj) /\ IsRemoteRef(rk) /\ rj # rk) => EntryFile(j) # EntryFile(k)

\* C7: in multi-clip mode the concatenation list has exactly one entry per
\* non-blank video reference, in slot order, each naming the local file the
\* reference resolved to (the scratch file of a URL, the path itself of a local
\* file), and distinct remote references never resolve to the same scratch file.
C7_ConcatListNamesResolvedFiles == C7_OneEntryPerReference /\ C7_DistinctScratchFiles

\* C8: in multi-clip mode the concatenation runs only after every reference has
\* been resolved, the mux runs only right after a concatenation that exited with
\* status zero and only when a non-blank audio path was supplied, and with audio
\* the concatenation writes into the scratch directory, so that only the mux
\* writes the final output path.
C8_ResolveConcatMuxOrder ==
    Stitching =>
        /\ \A k \in CallIndexes("concat") :
            /\ Len(local_paths) = Cardinality(NonBlankSlots)
            /\ \A j \in CallIndexes("download") : j < k
            /\ ~IsBlankRef(params.audio_path) =>
                /\ IsUnder(calls[k].target, temp_dir)
                /\ calls[k].target # output.path
        /\ \A k \in CallIndexes("mux") :
            /\ ~IsBlankRef(params.audio_path)
            /\ k - 1 \in CallIndexes("concat")
            /\ CallSucceeded(calls[k - 1])
            /\ calls[k].target = output.path
        /\ (~IsBlankRef(params.audio_path) /\ output # NoOutput /\ Exists(files, output.path))
              => CallIndexes("mux") # {}

\* Two downloads, the concatenation into the scratch directory, then the mux that
\* wrote the output.
C8_Witness ==
    /\ Stitching
    /\ pc = "returned"
    /\ Len(calls) = 4
    /\ calls[3].op = "concat"
    /\ calls[4].op = "mux"
    /\ Head(files[output.path]) = "mux"

\* C9: stitch_videos, combine_video_audio and download_video return a path only
\* when every download and every external process of the invocation succeeded
\* (HTTP success, exit status zero, within 600s for the concatenation and 300s for
\* a mux); after a failed call the invocation has raised, with no path and no UI
\* payload.
C9_PathOnlyAfterSuccess ==
    node \in {"stitch_videos", "combine_video_audio", "download_video"} =>
        /\ pc = "returned" =>
            /\ result # None
            /\ \A k \in 1..Len(calls) : CallSucceeded(calls[k])
        /\ (\E k \in 1..Len(calls) : ~CallSucceeded(calls[k])) =>
            /\ pc = "raised"
            /\ result = None
        /\ result # None => pc = "returned"

\* A stitch that returned after a concatenation of exactly 600s and a mux of
\* exactly 300s.
C9_Witness ==
    /\ Stitching
    /\ pc = "returned"
    /\ \E j \in CallIndexes("concat") : calls[j].elapsed = 600
    /\ \E k \in CallIndexes("mux") : calls[k].elapsed = 300
    /\ result[1].path = output.path

\* C10: within one invocation of stitch_videos, generate_audio or generate_video
\* each video reference is downloaded at most once, each of the concatenation,
\* the mux, the upload and the job submission happens at most once, and a failed
\* call is the last call of the invocation.
C10_EveryCallAttemptedOnce ==
    node \in {"stitch_videos", "generate_audio", "generate_video"} =>
        /\ \A j, k \in 1..Len(calls) :
            (j # k /\ calls[j].op = calls[k].op) =>
                (calls[j].op = "download" /\ calls[j].ref # calls[k].ref)
        /\ \A k \in 1..Len(calls) :
            ~CallSucceeded(calls[k]) => (k = Len(calls) /\ pc = "raised")

\* The second of two downloads of a stitch failed, and the invocation raised.
C10_Witness ==
    /\ Stitching
    /\ pc = "raised"
    /\ Len(calls) = 2
    /\ calls[1].op = "download" /\ calls[1].http = "ok"
    /\ calls[2].op = "download" /\ calls[2].http = "http_error"

(***************************************************************************)
(* Properties of the audio-mux commands                                    *)
(***************************************************************************)
\* The positions of an option in the command.
OptionAt(opt) == {k \in 1..Len(cmd) : cmd[k] = <<opt>>}

\* The option is given once, with this value.
HasOptionValue(opt, value) ==
    /\ Cardinality(OptionAt(opt)) = 1
    /\ \A k \in OptionAt(opt) : k < Len(cmd) /\ cmd[k + 1] = value

\* The video stream is copied and only the audio stream is encoded (to AAC).
CopiesVideoEncodesAudio ==
    /\ HasOptionValue("-c:v", <<"copy">>)
    /\ HasOptionValue("-c:a", <<"aac">>)
    /\ OptionAt("-vf") = {} /\ OptionAt("-filter:v") = {}

\* The audio is scaled by the supplied factor: by a volume filter with that
\* factor, or by no filter at all when the factor is one.
ScalesBySuppliedVolume ==
    \/ HasOptionValue("-filter:a", FormatVolume(cmdArgs.volume))
    \/ OptionAt("-filter:a") = {} /\ cmdArgs.volume = 10

\* The two inputs are the video and the audio, and the output comes last.
ReadsAndWritesAsGiven ==
    /\ Cardinality(OptionAt("-i")) = 2
    /\ \E j, k \in OptionAt("-i") : j < k /\ cmd[j + 1] = cmdArgs.video /\ cmd[k + 1] = cmdArgs.audio
    /\ cmd[Len(cmd)] = cmdArgs.out

\* The caller asked for trimming; stitch_videos has no such parameter.
TrimRequested == cmdNode = "combine_video_audio" /\ cmdArgs.trim

\* The statement of C11 as written: -shortest exactly when trimming was asked for.
C11_ShortestExactlyWhenRequested ==
    cmd # <<>> =>
        /\ CopiesVideoEncodesAudio
        /\ ScalesBySuppliedVolume
        /\ (OptionAt("-shortest") # {}) <=> TrimRequested

\* C11 (amended): every audio-mux command copies the video stream, encodes only
\* the audio stream and scales it by the supplied volume; combine_video_audio
\* adds -shortest exactly when trim_audio_to_video is set, add_audio_to_video
\* always adds it.
C11_MuxCommand ==
    cmd # <<>> =>
        /\ CopiesVideoEncodesAudio
        /\ ScalesBySuppliedVolume
        /\ ReadsAndWritesAsGiven
        /\ IF cmdNode = "combine_video_audio"
           THEN (OptionAt("-shortest") # {}) <=> cmdArgs.trim
           ELSE OptionAt("-shortest") # {}

\* combine_video_audio with volume 1.0 and no trimming: neither filter nor
\* -shortest.
C11_Witness ==
    /\ cmdNode = "combine_video_audio"
    /\ cmdArgs.volume = 10
    /\ ~cmdArgs.trim
    /\ OptionAt("-filter:a") = {}
    /\ OptionAt("-shortest") = {}
    /\ Len(cmd) = 13

(***************************************************************************)
(* Properties of the nodes that call a remote service                      *)
(***************************************************************************)
FalNodes == {"generate_audio", "generate_video"}

\* The nodes that take an API key and a prompt.
KeyedNodes == FalNodes \cup FluxNodes \cup {"analyze_image_qc"}

KeyAbsent ==
    IF node \in FalNodes THEN params.fal_api_key = ""
    ELSE IF node \in FluxNodes THEN IsBlankRef(params.api_key)
    ELSE params.api_key = ""

PromptEmpty ==
    IF node \in FluxNodes THEN IsBlankRef(params.prompt) ELSE params.prompt = ""

\* The invocation has ended with a failure shown to the user: it raised, or it
\* returned an error image or an error text.
FailureReported ==
    \/ pc = "raised"
    \/ /\ pc = "returned"
       /\ node \in FluxNodes \cup {"analyze_image_qc"}
       /\ result[1][1] \in {"error image", "No OpenAI API key provided"}

\* Nothing has been sent, no temporary file made, the environment not touched.
NothingDoneYet ==
    /\ calls = <<>>
    /\ made = {}
    /\ environ = [v \in EnvNames |-> None]

\* An absent API key is reported before anything is done, in all five nodes.
C12_AbsentKeyFailsFirst ==
    (node \in KeyedNodes /\ KeyAbsent) => (FailureReported /\ NothingDoneYet)

\* C12: in the five nodes that take an API key or a prompt, an absent key or an
\* empty prompt ends the invocation with a reported failure before any network
\* call, before any temporary file and before any change of the environment.
C12_InvalidParameterFailsFirst ==
    (node \in KeyedNodes /\ (KeyAbsent \/ PromptEmpty)) =>
        (FailureReported /\ NothingDoneYet)

\* A supplied local path (not blank, not a URL) that names no existing file.
IsMissingLocal(r) ==
    /\ ~IsBlankRef(r)
    /\ ~IsRemoteRef(r)
    /\ Trimmed(r) \notin DOMAIN InitFiles

\* Some local video or audio path given to the invocation names no file.
SomeLocalFileMissing ==
    IF node = "stitch_videos"
    THEN \/ \E i \in 1..NumVideoSlots : IsMissingLocal(params.video[i])
         \/ IsMissingLocal(params.audio_path)
    ELSE \/ IsMissingLocal(params.video_url_or_path)
         \/ IsMissingLocal(params.audio_path)

\* No download was requested, and the invocation does not end by returning.
FailsBeforeAnyDownload ==
    /\ CallIndexes("download") = {}
    /\ pc # "returned"

\* combine_video_audio checks its local files before it downloads.
C13_CombineChecksFilesFirst ==
    (node = "combine_video_audio" /\ SomeLocalFileMissing) =>
        (pc = "raised" /\ calls = <<>>)

\* C13: in stitch_videos and combine_video_audio, when a supplied local video or
\* audio path names a file that does not exist, the invocation fails before any
\* download request is issued, whatever mix of local and remote references.
C13_MissingFileFailsBeforeDownload ==
    (node \in {"stitch_videos", "combine_video_audio"} /\ SomeLocalFileMissing) =>
        FailsBeforeAnyDownload

(***************************************************************************)
(* The media URL of a generation job's result                              *)
(***************************************************************************)
GenerationNodes == FalNodes \cup FluxNodes

\* The keys under which a node looks for its media URL, in the order it looks.
RecognizedKeys ==
    IF node = "generate_video" THEN <<"video">>
    ELSE IF node = "generate_audio" THEN <<"audio", "audio_file", "url">>
    ELSE <<"images", "image">>

\* A job has delivered a result to a generation node.
HasReply == node \in GenerationNodes /\ reply # None

LacksEveryRecognizedKey ==
    \A i \in 1..Len(RecognizedKeys) : reply[1][RecognizedKeys[i]] = "absent"

\* The invocation ended with an error: an exception, or Flux's error result.
ErrorReported ==
    \/ pc = "raised"
    \/ pc = "returned" /\ node \in FluxNodes /\ result[1][1] = "error image"

\* The three nodes that report a result without any recognized key as an error.
C14_AudioAndFluxReportMissingKeys ==
    (HasReply /\ node # "generate_video" /\ LacksEveryRecognizedKey) => ErrorReported

\* C14: in the generation nodes (generate_video, generate_audio, both Flux
\* nodes) a result that lacks every recognized media-URL key ends the
\* invocation with an error and is never handed back as a URL or a path.
C14_MissingMediaKeyIsAnError ==
    (HasReply /\ LacksEveryRecognizedKey) => ErrorReported

\* The URL a key of the result holds that the node could use, if any.
UsableUrls(key) ==
    IF node \in FluxNodes
    THEN IF key = "images"
         THEN IF reply[1].images = "one_url" THEN <<ImageUrl(1)>>
              ELSE IF reply[1].images = "two_urls" THEN <<ImageUrl(1), ImageUrl(2)>>
              ELSE <<>>
         ELSE IF reply[1].image = "url" THEN <<ImageUrl(0)>> ELSE <<>>
    ELSE IF reply[1][key] = "str" \/ (key # "url" /\ reply[1][key] = "dict_url")
         THEN <<UrlUnder(key)>>
         ELSE <<>>

UsableKeys == {i \in 1..Len(RecognizedKeys) : UsableUrls(RecognizedKeys[i]) # <<>>}

FirstUsableKey == RecognizedKeys[CHOOSE i \in UsableKeys : \A j \in UsableKeys : i <= j]

\* The extraction went on to the download with these URLs.
ExtractedUrls == IF ErrorReported THEN <<>> ELSE video_paths

\* The first recognized key, when usable, is always the one that is used.
C15_FirstKeyIsUsed ==
    (HasReply /\ node # "generate_video" /\ 1 \in UsableKeys)
        => (pc \in {"ga_download", "fx_download"} => video_paths = UsableUrls(RecognizedKeys[1]))

\* C15: the extraction is an ordered fallback over the recognized keys
\* (audio, audio_file, url for audio; images, image for images): whenever one
\* of them holds a usable URL the extraction succeeds with the first such
\* key's URL, even if an earlier key is present with an unusable value.
C15_OrderedFallback ==
    (HasReply /\ node # "generate_video" /\ UsableKeys # {}
        /\ pc \in {"ga_download", "fx_download", "raised", "returned"}
        /\ calls[Len(calls)].op = "subscribe")
        => (~ErrorReported /\ video_paths = UsableUrls(FirstUsableKey))

(***************************************************************************)
(* The Flux nodes' error results                                           *)
(***************************************************************************)
\* Every image of the result was fetched and decoded.
FluxSucceeded == video_paths # <<>> /\ Len(local_paths) = Len(video_paths)

\* C16: generate of the two Flux nodes never raises; it always returns a tuple
\* of the node's declared arity, and on every failure the first element is the
\* error image and the second the error text.
C16_FluxAlwaysReturnsDeclaredTuple ==
    node \in FluxNodes =>
        /\ pc # "raised"
        /\ pc = "returned" =>
            /\ Len(result[1]) = Len(ReturnTypes(node))
            /\ IF FluxSucceeded
               THEN result[1][1] = "images"
               ELSE result[1][1] = "error image" /\ result[1][2] \in ErrorTexts

\* The Ultra node has returned its error result after a failed image download.
C16_Witness ==
    /\ node = "FluxProUltraManual"
    /\ pc = "returned"
    /\ \E i \in 1..Len(calls) : calls[i].op = "download" /\ calls[i].http = "http_error"
    /\ result[1] = <<"error image", "Network error", "seed">>

(***************************************************************************)
(* The error image                                                         *)
(***************************************************************************)
\* The lines are within the node's limits, in number and in length.
LinesWithinLimits ==
    /\ Len(eiLines) <= MaxLines(eiNode)
    /\ \A i \in 1..Len(eiLines) : JoinLen(eiLines[i]) <= MaxLineChars(eiNode)
    /\ eiDrawn <= Len(eiLines)

\* C17: for every error message, longer than the truncation threshold (400
\* characters for Kontext, 500 for Ultra) or not, _create_error_image comes
\* to its return and renders at most 12 lines of at most 60 characters
\* (Kontext) or 15 lines of at most 80 characters (Ultra).
C17_ErrorImageWithinLimits ==
    /\ [](eiNode # "" => LinesWithinLimits)
    /\ (eiPc = "wrap") ~> (eiPc = "done")

\* A Kontext message longer than the threshold has been rendered in 12 lines.
C17_Witness ==
    /\ eiNode = "FluxKontextProManual"
    /\ eiPc = "done"
    /\ JoinLen(eiMessage) > MaxChars(eiNode)
    /\ Len(eiLines) = MaxLines(eiNode)
    /\ eiDrawn = MaxLines(eiNode)

(***************************************************************************)
(* The music prompt                                                        *)
(***************************************************************************)
\* The request failed or its answer was malformed.
OllamaFailed ==
    \/ reply[1].kind \in {"transport_error", "http_error", "not_json", "not_object"}
    \/ reply[1].kind = "object" /\ reply[1].response[1] \in {"null", "number"}

\* The answer holds no response text, or only white space.
OllamaResponseEmpty ==
    /\ reply[1].kind = "object"
    /\ \/ reply[1].response[1] = "missing"
       \/ /\ reply[1].response[1] = "str"
          /\ \A i \in 1..Len(reply[1].response[2]) : reply[1].response[2][i] = " "

\* C18: generate_music_prompt never raises; when the request fails or the
\* answer is malformed it returns the fallback prompt, when the response
\* field is missing or empty it returns the default prompt, and what it
\* returns is always a non-empty string.
C18_MusicPromptNeverFails ==
    node = "generate_music_prompt" =>
        /\ pc # "raised"
        /\ pc = "returned" =>
            /\ Len(result[1]) = 1
            /\ result[1][1] # <<>>
            /\ OllamaFailed => result[1][1] = FallbackPrompt
            /\ OllamaResponseEmpty => result[1][1] = DefaultPrompt

\* The request was answered with an error status and the fallback returned.
C18_Witness ==
    /\ node = "generate_music_prompt"
    /\ pc = "returned"
    /\ reply[1].kind = "http_error"
    /\ result[1] = <<FallbackPrompt>>

(***************************************************************************)
(* The place and the name of the output files                              *)
(***************************************************************************)
OutputNodes == {"download_video", "combine_video_audio", "stitch_videos", "generate_audio"}

\* The node has written a file at the path it chose for its output.
OutputWritten == node \in OutputNodes /\ output # NoOutput /\ Exists(files, output.path)

\* The prefix the output file name was made from.
OutputPrefix == IF node = "generate_audio" THEN <<"audio">> ELSE params.filename_prefix

\* p names a file directly in the output directory.
DirectChildOfOutputDir(p) ==
    /\ IsUnder(p, OutputDir)
    /\ \A i \in (Len(OutputDir) + 2)..Len(p) : p[i] \notin {"/", ".."}

\* <prefix>_<timestamp>.<ext>
NamedByPrefixAndStamp(name) ==
    \E t \in 0..MaxClock, ext \in {".mp4", ".mp3", ".wav", ".flac"} :
        name = OutputPrefix \o <<"_">> \o StampSeconds(t) \o <<ext>>

\* With a prefix that holds no path separator the output file is where and
\* what the layout says.
C19_PlainPrefixStaysInOutputDir ==
    (OutputWritten /\ \A i \in 1..Len(OutputPrefix) : OutputPrefix[i] \notin {"/", ".."})
        => /\ DirectChildOfOutputDir(output.path)
           /\ output.path = OutputDir \o <<"/">> \o output.filename
           /\ NamedByPrefixAndStamp(output.filename)

\* C19: every file a node writes as its output (download_video,
\* combine_video_audio, stitch_videos, generate_audio) is a direct child of
\* the output directory and is named <prefix>_<timestamp>.<ext>, whatever the
\* filename prefix.
C19_OutputIsDirectChildOfOutputDir ==
    OutputWritten =>
        /\ DirectChildOfOutputDir(output.path)
        /\ NamedByPrefixAndStamp(output.filename)

(***************************************************************************)
(* The environment                                                         *)
(***************************************************************************)
\* The invocation is over.
InvocationOver == pc \in {"returned", "raised"}

\* os.environ is as it was before the invocation.
EnvironUntouched == environ = [v \in EnvNames |-> None]

\* Every node but the two fal nodes leaves os.environ alone.
C20_OtherNodesLeaveEnviron == (node \notin FalNodes) => EnvironUntouched

\* C20: no node invocation leaves process-wide state changed: when an
\* invocation is over, the environment variables are as they were before it.
C20_EnvironRestoredAfterInvocation == InvocationOver => EnvironUntouched

(***************************************************************************)
(* The counter of the cycling selectors                                    *)
(***************************************************************************)
\* This step is an invocation of the cycling selector n.
CyclingInvocation(n) ==
    /\ swNode' = n
    /\ swInputs' = swInputs
    /\ UNCHANGED <<mediaVars, auxVars>>

\* C21 as stated: the counter of a cycling selector increases by exactly one
\* on every invocation, those with no connected input included.
C21_CounterIncrementsOnEveryInvocation ==
    [][\A n \in CyclingNodes : CyclingInvocation(n) => counter'[n] = counter[n] + 1]_vars

\* C21: the counter of a cycling selector starts at 0 and is never decreased
\* or reset; an invocation with at least one connected input increases it by
\* exactly one, an invocation with none leaves it as it is, and nothing else
\* changes it.
C21_CounterCountsSelections ==
    /\ counter = [n \in CyclingNodes |-> 0]
    /\ [][\A n \in CyclingNodes :
            /\ counter'[n] >= counter[n]
            /\ IF CyclingInvocation(n) /\ Collect(swInputs) # <<>>
               THEN counter'[n] = counter[n] + 1
               ELSE counter'[n] = counter[n]]_vars

\* A cycling selector that has selected before is invoked with nothing
\* connected.
C21_Witness ==
    /\ swNode \in CyclingNodes
    /\ Collect(swInputs) = <<>>
    /\ swRet = EmptyReturn(swNode)
    /\ counter[swNode] > 0

(***************************************************************************)
(* The UI payload                                                          *)
(***************************************************************************)
\* The node has returned a payload for the UI.
PayloadReturned ==
    /\ pc = "returned"
    /\ node \in {"stitch_videos", "preview_video"}
    /\ result[1].ui # None

\* The file the host shows for the payload: type "output" is the output
\* directory, then the subfolder, then the filename.
PayloadFile == OutputDir \o <<"/">> \o result[1].ui[1].subfolder \o result[1].ui[1].filename

\* The video the node produced (stitch_videos) or was given (preview_video).
PayloadVideo ==
    IF node = "stitch_videos" THEN ContentOf(files, result[1].path)
    ELSE InitFiles[params.video_path]

\* The payload names an existing file directly in the output directory that
\* holds the node's video.
PayloadDenotesVideo ==
    /\ result[1].ui[1].subfolder = <<>>
    /\ result[1].ui[1].type = "output"
    /\ DirectChildOfOutputDir(PayloadFile)
    /\ Exists(files, PayloadFile)
    /\ files[PayloadFile] = PayloadVideo
    /\ node = "stitch_videos" => PayloadFile = result[1].path

\* The payload is right when preview_video copied the video or the video lay
\* directly in the output directory, and for stitch_videos.
C22_PayloadOfCopiedOrDirectVideo ==
    (PayloadReturned /\ (node = "preview_video" =>
                            params.video_path \in {PvOutside, PvInOutput}))
        => PayloadDenotesVideo

\* C22: whenever stitch_videos or preview_video returns a UI payload, its
\* filename, with the empty subfolder and type "output", denotes an existing
\* file directly under the output directory that is the video the node
\* produced or was given.
C22_UiPayloadDenotesVideo == PayloadReturned => PayloadDenotesVideo

(***************************************************************************)
(* The aspect ratio sent by FluxKontextProManual                           *)
(***************************************************************************)
\* An aspect ratio chosen by name is sent as it is.
C23_NamedRatioIsSent ==
    (genArgs # <<>> /\ genArgs.aspect_ratio # "preserve_input")
        => arguments.aspect_ratio = genArgs.aspect_ratio

\* C23: with aspect_ratio "preserve_input" the request carries the standard
\* ratio closest to the input image's width / height, never the literal
\* "preserve_input".
C23_PreserveInputSendsClosestRatio ==
    (genArgs # <<>> /\ genArgs.aspect_ratio = "preserve_input")
        => /\ arguments.aspect_ratio = ClosestRatio(genArgs.width, genArgs.height)
           /\ arguments.aspect_ratio # "preserve_input"

(***************************************************************************)
(* Schema and entry function                                               *)
(***************************************************************************)
\* All the input names a schema declares.
DeclaredNames(n) == UNION {InputTypes(n)[g] : g \in DOMAIN InputTypes(n)}

\* The schema has only the two groups, declares exactly the parameters, and
\* declares as required every parameter without a default.
SchemaMatchesFunction(n) ==
    /\ DOMAIN InputTypes(n) \subseteq {"required", "optional"}
    /\ DeclaredNames(n) = Parameters(n)
    /\ WithoutDefault(n) \subseteq Group(n, "required")

\* Every class but FluxProUltraManual has a matching schema and is called
\* with arguments that bind.
C24_OtherClassesMatch ==
    (hcClass # "" /\ hcClass # "FluxProUltraManual")
        => (SchemaMatchesFunction(hcClass) /\ hcBound)

\* C24: for every node class the schema has only the groups "required" and
\* "optional" and the input names it declares are the parameters of the
\* entry function, the parameters without a default among the required ones.
C24_SchemaMatchesEntryFunction ==
    hcClass # "" => SchemaMatchesFunction(hcClass)

(***************************************************************************)
(* Windows of selections, and two selector instances                       *)
(***************************************************************************)
\* How often the input of slot i was selected by invocations k..k+n-1 of the run.
TimesSelected(i, k, n) == Cardinality({j \in k..(k + n - 1) : sels[j] = swInputs[i]})

\* Every window of N consecutive invocations of the run selects each connected
\* position exactly once.
EveryWindowSelectsEachOnce ==
    LET n == NumConnected(swInputs) IN
    n > 0 =>
        \A k \in 1..Len(sels) :
            k + n - 1 <= Len(sels) =>
                \A i \in ConnectedSlots(swInputs) : TimesSelected(i, k, n) = 1

\* An invocation of one cycling instance leaves the other's counter alone.
InstancesApart ==
    \A n \in CyclingNodes :
        swNode' = n => \A m \in CyclingNodes \ {n} : counter'[m] = counter[m]

\* C25: while the N >= 1 connected inputs of a cycling selector stay the same,
\* every window of N consecutive invocations selects each connected position
\* exactly once, whatever the counter at the start of the window; invocations
\* of another selector instance in between change neither this nor the
\* instance's counter.
C25_WindowsAndInstances ==
    /\ []EveryWindowSelectsEachOnce
    /\ [][InstancesApart]_vars

\* A run over three connected inputs, longer than a window, that began at a
\* counter three does not divide, with the other instance invoked as well.
C25_Witness ==
    /\ NumConnected(swInputs) = MaxWired
    /\ Len(sels) > MaxWired
    /\ runStart % MaxWired # 0
    /\ counter["CyclingSwitchAny"] > 0

(***************************************************************************)
(* The caller's files                                                      *)
(***************************************************************************)
MuxNodes == {"combine_video_audio", "stitch_videos"}

\* Every file that was there before the invocation is there with its content.
CallerFilesIntact ==
    \A p \in DOMAIN InitFiles : Exists(files, p) /\ files[p] = InitFiles[p]

\* p is a temporary file or directory the invocation made, or lies in one.
MadeByInvocation(p) == \E d \in made : p = d \/ IsUnder(p, d)

\* A step removes only what the invocation made.
RemovesOnlyOwnFiles ==
    \A p \in DOMAIN files : ~Exists(files', p) => MadeByInvocation(p)

\* Nothing the invocation made as a temporary is left.
TemporariesGone == \A p \in DOMAIN files : ~MadeByInvocation(p)

\* Both nodes remove only temporary files of their own, and those of
\* combine_video_audio are gone when it is over.
C26_OnlyOwnTemporariesRemoved ==
    /\ []((node = "combine_video_audio" /\ InvocationOver) => TemporariesGone)
    /\ [][node' \in MuxNodes => RemovesOnlyOwnFiles]_vars

\* C26: combine_video_audio and stitch_videos never delete or overwrite a
\* file the caller supplied; they remove only temporary files the invocation
\* created, and the temporary download of combine_video_audio no longer
\* exists when it is over.
C26_CallerFilesUntouched ==
    /\ [](node \in MuxNodes => CallerFilesIntact)
    /\ []((node = "combine_video_audio" /\ InvocationOver) => TemporariesGone)
    /\ [][node' \in MuxNodes => RemovesOnlyOwnFiles]_vars

(***************************************************************************)
(* The temporary PNG of the upload                                         *)
(***************************************************************************)
UploadNodes == {"generate_video", "FluxKontextProManual"}

\* Once the image is saved and the upload attempted, the file is removed on
\* every exit.
C27_PngRemovedAfterUploadAttempt ==
    (node \in UploadNodes /\ InvocationOver /\ calls # <<>>) => TemporariesGone

\* C27: when generate_video or FluxKontextProManual.generate is over, the
\* temporary PNG it created for the upload no longer exists, on every exit
\* path after the file was created, a failure while encoding the image into
\* it included.
C27_TemporaryPngRemoved ==
    (node \in UploadNodes /\ InvocationOver) => TemporariesGone

(***************************************************************************)
(* The output directory after an error                                     *)
(***************************************************************************)
WritingNodes == {"download_video", "generate_audio", "stitch_videos"}

\* p is as it was before the invocation: absent, or there with its content.
PathAsBefore(p) ==
    IF p \in DOMAIN InitFiles
    THEN Exists(files, p) /\ files[p] = InitFiles[p]
    ELSE ~Exists(files, p)

\* Nothing was added to the output directory or changed in it, and nothing is
\* at the output path that was not there before.
OutputDirAsBefore ==
    /\ \A p \in DOMAIN files : IsUnder(p, OutputDir) => PathAsBefore(p)
    /\ output # NoOutput => PathAsBefore(output.path)

\* An invocation that raises before its first request or process leaves the
\* output directory as it was.
C28_EarlyErrorLeavesNothing ==
    (node \in WritingNodes /\ pc = "raised" /\ calls = <<>>) => OutputDirAsBefore

\* C28: when download_video, generate_audio or stitch_videos ends by raising,
\* no new or partially written file is left at the output path it chose: the
\* output directory is as it was.
C28_ErrorLeavesOutputDirUnchanged ==
    (node \in WritingNodes /\ pc = "raised") => OutputDirAsBefore

(***************************************************************************)
(* The output paths of two invocations                                     *)
(***************************************************************************)
\* The invocation ended well and wrote its output.
OutputDelivered == node \in OutputNodes /\ pc = "returned" /\ output # NoOutput

\* The %S field of the name of the output file.
OutputSecond == output.filename[Len(output.filename) - 1]

\* With another prefix, or in another second, the invocation writes to another
\* path than the earlier invocation did.
C29_OtherPrefixOrSecondOtherPath ==
    (OutputDelivered /\ (OutputPrefix # EarlierPrefix \/ <<OutputSecond>> # StampSeconds(0)))
        => output.path # EarlierOutput

\* C29: two successful invocations of an output-writing node never write to the
\* same path, also with the same prefix: the invocation does not write where
\* the earlier invocation wrote its output.
C29_OutputPathsNeverShared ==
    OutputDelivered => output.path # EarlierOutput

(***************************************************************************)
(* The words of the lines of the error image                               *)
(***************************************************************************)
\* a is the beginning of b.
SeqPrefix(a, b) == Len(a) <= Len(b) /\ SubSeq(b, 1, Len(a)) = a

ShortenAll(n, ws) == [i \in 1..Len(ws) |-> Shorten(n, ws[i])]

\* The words of the truncated message, the long ones shortened.
WrappedWords == ShortenAll(eiNode, Words(eiNode, eiMessage))

\* The words of the lines, in order.
LineWords == Flatten(eiLines)

\* While the loop runs, every word is in a line, in current_line or still to
\* come, in the order of the message; the loop leaves words out only by
\* breaking at max_lines.
WrapKeepsWords ==
    eiPc = "wrap" =>
        \/ LineWords \o eiCurrent \o ShortenAll(eiNode, eiWords) = WrappedWords
        \/ /\ eiWords = <<>>
           /\ LinesFull(eiNode, eiLines)
           /\ SeqPrefix(LineWords \o eiCurrent, WrappedWords)

====
